---- MODULE Spec2Model ----
(***************************************************************************)
(* Model of RolloutlyClient (packages/core/src/client.ts, lines 1-471):    *)
(* the flag synchronisation engine with its initial fetch, the identify /  *)
(* reset re-fetches, the realtime (push) callback, the localStorage copy,  *)
(* the cached flat value object and the listener fan-out.                  *)
(*                                                                         *)
(* JavaScript runs each handler to its next await without interleaving, so *)
(* every action below is one such run: a public call up to the point where *)
(* its fetch is issued, or the continuation that runs when a response      *)
(* lands.  A fetch "lands" when both awaits of fetchFlags (fetch and       *)
(* response.json) have settled, and the step runs fetchFlags to its end.   *)
(* initialize, which awaits fetchFlags and setupRealtime, resumes in a     *)
(* step of its own (InitializeResumes): other continuations can run        *)
(* between the return of the awaited call and the statements that follow   *)
(* the await.  identify and reset do nothing after their await but settle  *)
(* the promise they returned, which is recorded with the landing.  Each of *)
(* the Firebase calls of setupRealtime, and the ref call of close, returns *)
(* or throws; off, the function onValue returned and the listeners return  *)
(* normally.                                                               *)
(***************************************************************************)
EXTENDS Integers, Sequences, FiniteSets, TLC

\* ------------------------------------------------------------------ bounds
MaxFetches == 2      \* flag requests issued over a run, the initial one included
MaxKeyLen  == 3      \* longest key of the snapshots enumerated by SpecKeys
MaxPush    == 1      \* realtime callbacks (value or error) delivered over a run
MaxReadLen == 2      \* longest key of the snapshots and lookups enumerated by SpecRead
MaxTailLen == 5      \* longest tail of the tokens enumerated by SpecToken
MaxBurst   == 2      \* realtime callbacks delivered over a run of SpecPush

\* ----------------------------------------------------- keys and characters
\* A key is a sequence of one-character strings.
Separators == {"-", "_"}

\* String.prototype.toUpperCase on one character of the model's alphabet.
toUpperCase(c) ==
  CASE c = "a" -> "A"
    [] c = "b" -> "B"
    [] c = "x" -> "X"
    [] OTHER   -> c

\* str.replace(/[-_](.)/g, (_, char) => char.toUpperCase()): scanning from the
\* left, a separator that has a next character is dropped together with that
\* character, which is emitted upper-cased; the scan resumes after the pair.
RECURSIVE toCamelCase(_)
toCamelCase(str) ==
  IF Len(str) = 0 THEN <<>>
  ELSE IF str[1] \in Separators /\ Len(str) >= 2
       THEN <<toUpperCase(str[2])>> \o toCamelCase(SubSeq(str, 3, Len(str)))
       ELSE <<str[1]>> \o toCamelCase(Tail(str))

\* key.includes('-') || key.includes('_')
needsCamelCase(key) == \E i \in 1..Len(key) : key[i] \in Separators

\* ------------------------------------------------------------ flag values
BoolV(b) == [tag |-> "boolean", repr |-> IF b THEN "true" ELSE "false"]
StrV(s)  == [tag |-> "string", repr |-> s]
NumV(n)  == [tag |-> "number", repr |-> n]
UndefinedV == [tag |-> "undefined", repr |-> ""]

\* Boolean(v): false for false, 0, NaN, '' and undefined; true otherwise.
Boolean(v) ==
  CASE v.tag = "boolean"   -> v.repr = "true"
    [] v.tag = "string"    -> v.repr # ""
    [] v.tag = "number"    -> v.repr \notin {"0", "NaN"}
    [] v.tag = "undefined" -> FALSE
    [] OTHER               -> TRUE

Flag(key, enabled, value, type) ==
  [key |-> key, enabled |-> enabled, value |-> value, type |-> type]

\* A FlagMap is an object: a sequence of entries with distinct property names,
\* in property (insertion) order.
Entry(k, flag) == [k |-> k, flag |-> flag]

\* ------------------------------------------------- the flat value object
\* obj[k] = v on an object held as an ordered list of properties.
Put(obj, k, v) ==
  IF \E i \in 1..Len(obj) : obj[i].k = k
  THEN [i \in 1..Len(obj) |-> IF obj[i].k = k THEN [k |-> k, v |-> v] ELSE obj[i]]
  ELSE Append(obj, [k |-> k, v |-> v])

HasProp(obj, k) == \E i \in 1..Len(obj) : obj[i].k = k
Prop(obj, k) ==
  IF HasProp(obj, k) THEN obj[CHOOSE i \in 1..Len(obj) : obj[i].k = k].v
  ELSE UndefinedV

\* The reduce without the camelCase alias.
CacheStepPlain(acc, e) == Put(acc, e.k, e.flag.value)

\* One step of the reduce in updateFlagValuesCache.
CacheStep(acc, e) ==
  LET a1 == Put(acc, e.k, e.flag.value)
  IN  IF needsCamelCase(e.k) THEN Put(a1, toCamelCase(e.k), e.flag.value) ELSE a1

RECURSIVE CacheReduce(_, _)
CacheReduce(acc, map) ==
  IF Len(map) = 0 THEN acc
  ELSE CacheReduce(CacheStep(acc, Head(map)), Tail(map))

\* The realtime data taken as it comes.
TagKeysIdentity(data) == data

\* The reduce of the realtime callback: acc[key] = { ...flag, key }.
RECURSIVE TagKeys(_)
TagKeys(data) ==
  IF Len(data) = 0 THEN <<>>
  ELSE <<Entry(data[1].k, [data[1].flag EXCEPT !.key = data[1].k])>>
       \o TagKeys(Tail(data))

\* ------------------------------------------------------- user contexts
\* config.user: undefined, or an object given as its set of own properties.
NoUser   == [defined |-> FALSE, attrs |-> {}]
EmptyCtx == [defined |-> TRUE, attrs |-> {}]
CtxA     == [defined |-> TRUE, attrs |-> {<<"userId", "u1">>}]
UserContexts == {EmptyCtx, CtxA}

\* A test that takes any object for a context.
hasUserContextDefined(u) == u.defined

\* this.config.user && Object.keys(this.config.user).length > 0
hasUserContext(u) == u.defined /\ Cardinality(u.attrs) > 0

\* ------------------------------------------------------------- payloads
kDash  == <<"a", "-", "b">>
kCamel == <<"a", "B">>
kUnder == <<"a", "_", "b">>
kX     == <<"x">>

FlagsOne   == <<Entry(kDash, Flag(kDash, TRUE, BoolV(TRUE), "boolean"))>>
FlagsClash == <<Entry(kDash, Flag(kDash, TRUE, StrV("hello"), "string")),
                Entry(kCamel, Flag(kCamel, FALSE, NumV("1"), "number"))>>
FlagsPlain == <<Entry(kX, Flag(kX, FALSE, BoolV(TRUE), "boolean"))>>
FetchPayloads == {FlagsOne, FlagsClash, FlagsPlain}

DataX     == <<Entry(kX, Flag(kDash, TRUE, NumV("1"), "number"))>>
DataUnder == <<Entry(kUnder, Flag(kUnder, TRUE, StrV("hello"), "string")),
               Entry(kDash, Flag(kX, TRUE, BoolV(FALSE), "boolean"))>>
PushData  == {DataX, DataUnder}

\* Failures of fetch(): a rejection with an Error, or a response whose ok is
\* false.
Rejections == {[isError |-> TRUE, text |-> "Network error"]}
BadStatuses == {"500"}

\* new Error(`Failed to fetch flags: ${response.status}`).message
StatusMessage(code) == <<"Failed to fetch flags: ", code>>
\* err instanceof Error ? err : new Error(String(err)), then .message
RejectionMessage(r) == <<r.text>>

Failures == {[kind |-> "reject", message |-> RejectionMessage(r)] : r \in Rejections}
            \cup {[kind |-> "status", message |-> StatusMessage(c)] : c \in BadStatuses}

\* ---------------------------------------------------------- localStorage
NoItem     == [kind |-> "missing", data |-> <<>>]
CorruptItem == [kind |-> "corrupt", data |-> <<>>]
\* JSON.stringify(this.flags)
Stringify(map) == [kind |-> "json", data |-> map]

Listeners == {"l1", "l2"}

NoError == [isNull |-> TRUE, message |-> <<>>]
ErrorOf(msg) == [isNull |-> FALSE, message |-> msg]

\* ---------------------------------------------------------------- tokens
\* A token is a sequence of one-character strings.
rly == <<"r", "l", "y">>

\* token.split('_'): the segments between the underscores, empty ones included.
RECURSIVE split(_)
split(str) ==
  IF \A i \in 1..Len(str) : str[i] # "_" THEN <<str>>
  ELSE LET i == CHOOSE n \in 1..Len(str) :
                  str[n] = "_" /\ \A j \in 1..(n - 1) : str[j] # "_"
       IN  <<SubSeq(str, 1, i - 1)>> \o split(SubSeq(str, i + 1, Len(str)))

NullToken == [isNull |-> TRUE, projectId |-> <<>>, environmentKey |-> <<>>]

\* A parser content with three segments.
parseTokenLoose(tok) ==
  LET parts == split(tok)
  IN  IF Len(parts) < 3 \/ parts[1] # rly THEN NullToken
      ELSE [isNull |-> FALSE, projectId |-> parts[2], environmentKey |-> parts[3]]

\* parseToken: null unless there are at least four segments, the first 'rly'.
parseToken(tok) ==
  LET parts == split(tok)
  IN  IF Len(parts) < 4 \/ parts[1] # rly THEN NullToken
      ELSE [isNull |-> FALSE, projectId |-> parts[2], environmentKey |-> parts[3]]

\* 'rly_p_e_p'
ValidToken == rly \o <<"_", "p", "_", "e", "_", "p">>

\* The tokens SpecToken constructs a client with: a head followed by any
\* string of at most MaxTailLen characters over TokenAlphabet.
TokenHeads == {rly, <<"r", "l">>, <<"r", "l", "y", "p">>, <<"p">>, <<>>}
TokenAlphabet == {"_", "p", "e"}
TokenTails == UNION {[1..n -> TokenAlphabet] : n \in 0..MaxTailLen}
Tokens == {h \o t : h \in TokenHeads, t \in TokenTails}

VARIABLES
  user,               \* config.user
  realtimeEnabled,    \* config.realtimeEnabled
  hasWindow,          \* typeof window !== 'undefined'
  setItemThrows,      \* localStorage.setItem throws (quota exceeded, storage disabled)
  defaultFlags,       \* config.defaultFlags
  token,              \* config.token
  parsedToken,        \* this.parsedToken
  realtimeOption,     \* realtimeEnabled as passed to the constructor
  limits,             \* how many requests and callbacks the run may contain
  storage,            \* localStorage item CACHE_KEY
  flags,              \* this.flags
  flagValuesCache,    \* this.flagValuesCache: [ref, props]; ref is the object's identity
  status,             \* this.status
  error,              \* this.error
  initPromise,        \* state of this.initPromise
  settleCalls,        \* calls of initResolve / initReject so far
  listeners,          \* this.listeners
  initPc,             \* where initialize() is suspended
  thrown,             \* what the call initialize() awaited has thrown
  firstFetch,         \* outcome of the request issued by initialize()
  lookups,            \* /api/sdk/config requests issued so far
  inflight,           \* flag requests issued and not yet landed
  nextId,             \* id of the next flag request
  channelOpen,        \* an onValue subscription is registered with the channel
  realtimeUnsubscribe,\* this.realtimeUnsubscribe is set
  database,           \* this.database is set
  closed,             \* close() has been called
  replacements,       \* assignments to this.flags after construction
  pushes,             \* realtime callbacks delivered so far
  lastOp              \* the handler that ran last and what it did to its callers

vars == <<user, realtimeEnabled, hasWindow, setItemThrows, defaultFlags, token,
          parsedToken, realtimeOption, limits, storage, flags,
          flagValuesCache, status, error, initPromise, settleCalls, listeners,
          initPc, thrown, firstFetch, lookups, inflight, nextId, channelOpen, realtimeUnsubscribe, database,
          closed, replacements, pushes, lastOp>>

\* ------------------------------------------------------- private methods
\* The fields a snapshot replacement touches, passed through the private
\* methods in the order the code calls them.  notified counts the listener
\* invocations of the running handler, seen is what those listeners could read
\* through the public accessors while they ran.
NoView == [flags |-> <<>>, ref |-> -1, props |-> <<>>]
View(s) == [flags |-> s.flags, ref |-> s.cache.ref, props |-> s.cache.props]

Me == [flags |-> flags, cache |-> flagValuesCache, storage |-> storage,
       notified |-> [l \in Listeners |-> 0], seen |-> NoView]

\* updateFlagValuesCache: a fresh object built by the reduce over this.flags.
updateFlagValuesCache(s) ==
  [s EXCEPT !.cache = [ref |-> s.cache.ref + 1, props |-> CacheReduce(<<>>, s.flags)]]

\* A failed write that puts the previous flags back.
cacheFlagsRollsBack(s) ==
  IF ~hasWindow THEN s
  ELSE IF setItemThrows THEN [s EXCEPT !.flags = flags]
  ELSE [s EXCEPT !.storage = Stringify(s.flags)]

\* cacheFlags: no-op without a window; a throwing setItem is swallowed.
cacheFlags(s) ==
  IF ~hasWindow THEN s
  ELSE IF setItemThrows THEN s
  ELSE [s EXCEPT !.storage = Stringify(s.flags)]

\* Listeners called before the flat object is rebuilt.
notifyListenersFirst(s) ==
  LET s1 == [s EXCEPT
               !.notified = [l \in Listeners |->
                               IF l \in listeners THEN s.notified[l] + 1 ELSE s.notified[l]],
               !.seen = IF listeners # {} THEN View(s) ELSE s.seen]
  IN  updateFlagValuesCache(s1)

\* notifyListeners: rebuild the flat object, then call every listener.
notifyListeners(s) ==
  LET s1 == updateFlagValuesCache(s)
  IN  [s1 EXCEPT
         !.notified = [l \in Listeners |->
                         IF l \in listeners THEN s1.notified[l] + 1 ELSE s1.notified[l]],
         !.seen = IF listeners # {} THEN View(s1) ELSE s1.seen]

\* fetchFlags patching the response into the flags it holds.
applyFetchedMerges(s, payload) ==
  LET kept == SelectSeq(s.flags, LAMBDA e : \A i \in 1..Len(payload) : payload[i].k # e.k)
  IN  notifyListeners(cacheFlags([s EXCEPT !.flags = kept \o payload]))

\* fetchFlags after a successful response:
\*   this.flags = data.flags; this.cacheFlags(); this.notifyListeners()
applyFetched(s, payload) ==
  notifyListeners(cacheFlags([s EXCEPT !.flags = payload]))

\* The else branch of the realtime callback:
\*   this.flags = reduce(...); this.cacheFlags(); this.notifyListeners()
applyPushed(s, data) ==
  notifyListeners(cacheFlags([s EXCEPT !.flags = TagKeys(data)]))

\* The request fetchFlags builds from config.user at the moment it is called.
Request(id, origin, u) ==
  [id |-> id, origin |-> origin,
   method |-> IF hasUserContext(u) THEN "POST" ELSE "GET",
   body |-> IF hasUserContext(u) THEN u ELSE NoUser]

\* What a handler did: its name, the request it is about, the failure message
\* it handled, how the promise awaited by its caller settled, the listener
\* invocations it made, the reference it returned and the flag mapping it was
\* handed (a response's flags, an event's data).
Op(name, id, msg, caller, s, ret, data) ==
  [op |-> name, id |-> id, msg |-> msg, caller |-> caller,
   notified |-> s.notified, seen |-> s.seen, ret |-> ret, data |-> data]

\* loadCachedFlags taking whatever getItem returned for a snapshot.
loadCachedFlagsUnchecked(s) ==
  IF ~hasWindow THEN s
  ELSE updateFlagValuesCache([s EXCEPT !.flags = s.storage.data])

\* A constructor that leaves localStorage unread.
loadCachedFlagsSkipped(s) == s

\* loadCachedFlags as run by the constructor.
loadCachedFlags(s) ==
  IF ~hasWindow THEN s
  ELSE IF s.storage.kind = "json"
       THEN updateFlagValuesCache([s EXCEPT !.flags = s.storage.data])
       ELSE s

Fresh(item) ==
  [flags |-> <<>>, cache |-> [ref |-> 0, props |-> <<>>], storage |-> item,
   notified |-> [l \in Listeners |-> 0], seen |-> NoView]

\* ------------------------------------------------------ public read surface
\* this.flags[key], an object when the key is a property of the snapshot.
HasFlag(key) == \E i \in 1..Len(flags) : flags[i].k = key
FlagAt(key) == flags[CHOOSE i \in 1..Len(flags) : flags[i].k = key].flag

\* this.config.defaultFlags[key]
Default(key) ==
  IF key \in DOMAIN defaultFlags THEN defaultFlags[key] ELSE UndefinedV

NullKey == [isNull |-> TRUE, key |-> <<>>]

\* A lookup that never scans for the original key.
findOriginalKeyNever(camelKey) == NullKey

\* A scan that keeps the last key that matches.
findOriginalKeyLast(camelKey) ==
  IF HasFlag(camelKey) THEN NullKey
  ELSE LET hits == {i \in 1..Len(flags) :
                      needsCamelCase(flags[i].k) /\ toCamelCase(flags[i].k) = camelKey}
       IN  IF hits = {} THEN NullKey
           ELSE [isNull |-> FALSE,
                 key |-> flags[CHOOSE i \in hits : \A j \in hits : i >= j].k]

\* findOriginalKey: null when the key exists directly, else the first key in
\* Object.keys order that has a separator and whose camelCase form is the
\* argument, else null.
findOriginalKey(camelKey) ==
  IF HasFlag(camelKey) THEN NullKey
  ELSE LET hits == {i \in 1..Len(flags) :
                      needsCamelCase(flags[i].k) /\ toCamelCase(flags[i].k) = camelKey}
       IN  IF hits = {} THEN NullKey
           ELSE [isNull |-> FALSE,
                 key |-> flags[CHOOSE i \in hits : \A j \in hits : i <= j].k]

\* getFlag reading the default of a disabled flag under the key it was asked.
getFlagByLookupKey(key) ==
  LET originalKey == findOriginalKey(key)
      flag == IF HasFlag(key) THEN FlagAt(key) ELSE FlagAt(originalKey.key)
  IN  IF HasFlag(key) \/ ~originalKey.isNull
      THEN IF flag.enabled THEN flag.value ELSE Default(key)
      ELSE Default(key)

\* getFlag(key)
getFlag(key) ==
  LET originalKey == findOriginalKey(key)
      flag == IF HasFlag(key) THEN FlagAt(key) ELSE FlagAt(originalKey.key)
      defaultKey == IF originalKey.isNull THEN key ELSE originalKey.key
  IN  IF HasFlag(key) \/ ~originalKey.isNull
      THEN IF flag.enabled THEN flag.value ELSE Default(defaultKey)
      ELSE Default(key)

\* isEnabled coercing the value of every enabled flag, whatever its type.
isEnabledCoercesAll(key) ==
  LET originalKey == findOriginalKey(key)
      flag == IF HasFlag(key) THEN FlagAt(key) ELSE FlagAt(originalKey.key)
      lookupKey == IF HasFlag(key) \/ originalKey.isNull THEN key ELSE originalKey.key
  IN  IF ~(HasFlag(key) \/ ~originalKey.isNull) THEN Boolean(Default(lookupKey))
      ELSE IF ~flag.enabled THEN Boolean(Default(lookupKey))
      ELSE Boolean(flag.value)

\* isEnabled answering false for a missing or disabled flag, defaults unread.
isEnabledIgnoresDefaults(key) ==
  LET originalKey == findOriginalKey(key)
      flag == IF HasFlag(key) THEN FlagAt(key) ELSE FlagAt(originalKey.key)
  IN  IF ~(HasFlag(key) \/ ~originalKey.isNull) THEN FALSE
      ELSE IF ~flag.enabled THEN FALSE
      ELSE IF flag.type = "boolean" THEN Boolean(flag.value) ELSE TRUE

\* isEnabled(key)
isEnabled(key) ==
  LET originalKey == findOriginalKey(key)
      flag == IF HasFlag(key) THEN FlagAt(key) ELSE FlagAt(originalKey.key)
      lookupKey == IF HasFlag(key) \/ originalKey.isNull THEN key ELSE originalKey.key
  IN  IF ~(HasFlag(key) \/ ~originalKey.isNull) THEN Boolean(Default(lookupKey))
      ELSE IF ~flag.enabled THEN Boolean(Default(lookupKey))
      ELSE IF flag.type = "boolean" THEN Boolean(flag.value) ELSE TRUE

\* ------------------------------------------------------------------ Init
\* The state when the constructor returns: fields initialised, the persisted
\* copy loaded, and initialize() suspended at its first await with request 1
\* issued.  An environment is <<hasWindow, setItemThrows, stored item>>.
Node    == <<FALSE, FALSE, NoItem>>
Cached  == <<TRUE, FALSE, Stringify(FlagsOne)>>
Browser == {<<TRUE, FALSE, NoItem>>, <<TRUE, FALSE, CorruptItem>>, Cached,
            <<TRUE, TRUE, NoItem>>}

Constructed(envs, users) ==
  /\ user \in users
  /\ realtimeEnabled \in BOOLEAN
  /\ \E env \in envs :
       /\ hasWindow = env[1]
       /\ setItemThrows = env[2]
       /\ LET s == loadCachedFlags(Fresh(env[3]))
          IN  /\ flags = s.flags
              /\ flagValuesCache = s.cache
              /\ storage = s.storage
  /\ status = "initializing"
  /\ error = NoError
  /\ initPromise = "pending"
  /\ settleCalls = 0
  /\ listeners = {}
  /\ initPc = "fetch"
  /\ thrown = NoError
  /\ firstFetch = "pending"
  /\ lookups = 0
  /\ inflight = {Request(1, "init", user)}
  /\ nextId = 2
  /\ channelOpen = FALSE
  /\ realtimeUnsubscribe = FALSE
  /\ database = FALSE
  /\ closed = FALSE
  /\ replacements = 0
  /\ pushes = 0
  /\ lastOp = Op("constructor", 0, <<>>, "none", Fresh(NoItem), -1, <<>>)

\* The realtimeEnabled option: left out, or given with a value.
Omitted == [given |-> FALSE, value |-> FALSE]
Given(b) == [given |-> TRUE, value |-> b]

\* An option left out read as false.
orFalse(option) == IF option.given THEN option.value ELSE FALSE

\* config.realtimeEnabled ?? true
orTrue(option) == IF option.given THEN option.value ELSE TRUE

\* The option behind the stored realtimeEnabled, and the run's budget.
Opted(options, maxFetches, maxPushes) ==
  /\ realtimeOption \in options
  /\ realtimeEnabled = orTrue(realtimeOption)
  /\ limits = [fetches |-> maxFetches, pushes |-> maxPushes]

\* The configuration the constructor stored and the token it parsed.
Configured(tokens, tables) ==
  /\ token \in tokens
  /\ parsedToken = parseToken(token)
  /\ defaultFlags \in tables

NoDefaults == [k \in {} |-> UndefinedV]

Init == /\ Constructed({Node, Cached}, {NoUser, EmptyCtx, CtxA})
        /\ Configured({ValidToken}, {NoDefaults})
        /\ Opted({Omitted, Given(FALSE)}, MaxFetches, MaxPush)

\* --------------------------------------------------------------- actions
Store(s) ==
  /\ flags' = s.flags
  /\ flagValuesCache' = s.cache
  /\ storage' = s.storage
  /\ replacements' = replacements + 1

config == <<realtimeEnabled, hasWindow, setItemThrows, defaultFlags, token, parsedToken,
           realtimeOption, limits>>
snapshot == <<flags, flagValuesCache, storage, replacements>>
initState == <<status, error, initPromise, settleCalls, initPc, thrown, firstFetch, lookups>>
channel == <<channelOpen, realtimeUnsubscribe, database>>

\* initialize, after its try block has run to the end.
initializeDone ==
  /\ status' = "ready"
  /\ initPromise' = "fulfilled"
  /\ settleCalls' = settleCalls + 1
  /\ initPc' = "done"
  /\ UNCHANGED error

\* A catch block that records its own message instead of the failure's.
initializeCatchGeneric(msg) ==
  /\ status' = "error"
  /\ error' = ErrorOf(<<"Initialization failed">>)
  /\ initPromise' = "rejected"
  /\ settleCalls' = settleCalls + 1
  /\ initPc' = "done"

\* initialize, catch block.
initializeCatch(msg) ==
  /\ status' = "error"
  /\ error' = ErrorOf(msg)
  /\ initPromise' = "rejected"
  /\ settleCalls' = settleCalls + 1
  /\ initPc' = "done"

\* fetchFlags marking the client ready itself, before initialize has gone
\* through setupRealtime.
InitFetchSucceedsReadyEarly(payload) ==
  /\ initPc = "fetch"
  /\ \E r \in inflight :
       /\ r.origin = "init"
       /\ inflight' = inflight \ {r}
       /\ LET s == applyFetched(Me, payload)
          IN  /\ Store(s)
              /\ lastOp' = Op("fetchOk", r.id, <<>>, "resolved", s, -1, payload)
  /\ firstFetch' = "ok"
  /\ status' = "ready"
  /\ initPromise' = "fulfilled"
  /\ settleCalls' = settleCalls + 1
  /\ initPc' = IF realtimeEnabled THEN "fetched" ELSE "done"
  /\ UNCHANGED <<user, config, error, thrown, lookups, listeners, nextId, channel, closed,
                 pushes>>

\* The first fetch lands with a successful response: fetchFlags runs to its
\* end.  Its caller, initialize, resumes in a later step of the event loop, so
\* the client stays as initialize left it.
InitFetchSucceeds(payload) ==
  /\ initPc = "fetch"
  /\ \E r \in inflight :
       /\ r.origin = "init"
       /\ inflight' = inflight \ {r}
       /\ LET s == applyFetched(Me, payload)
          IN  /\ Store(s)
              /\ lastOp' = Op("fetchOk", r.id, <<>>, "resolved", s, -1, payload)
  /\ firstFetch' = "ok"
  /\ initPc' = "fetched"
  /\ UNCHANGED <<status, error, initPromise, settleCalls, thrown, lookups>>
  /\ UNCHANGED <<user, config, listeners, nextId, channel, closed, pushes>>

\* The first fetch rejects or answers with ok = false: fetchFlags throws.  The
\* catch block of initialize runs in a later step of the event loop.
InitFetchFails(f) ==
  /\ initPc = "fetch"
  /\ \E r \in inflight :
       /\ r.origin = "init"
       /\ inflight' = inflight \ {r}
       /\ lastOp' = Op("fetchFail", r.id, f.message, "caught", Me, -1, <<>>)
  /\ firstFetch' = "failed"
  /\ initPc' = "thrown"
  /\ thrown' = ErrorOf(f.message)
  /\ UNCHANGED <<status, error, initPromise, settleCalls, lookups>>
  /\ UNCHANGED <<user, config, snapshot, listeners, nextId, channel, closed, pushes>>

\* A lookup that always comes back with an address.
getDatabaseUrlAlways(answer) == "url"

\* getDatabaseUrl: the URL of a successful answer that carries one, else null.
getDatabaseUrl(answer) == IF answer = "url" THEN "url" ELSE "null"
LookupAnswers == {"url", "noUrl", "notOk", "throws"}

\* What the Firebase calls of setupRealtime do: all return, or one of them
\* throws.  setupRealtime has no try block, so the error reaches initialize.
SetupCalls == {"initializeApp", "getDatabase", "ref", "onValue"}
SetupFaults == {"none"} \cup SetupCalls
FirebaseMessage(call) == <<"Firebase: ", call>>
\* What the ref call of close() does: it returns, or it throws.
CloseFaults == {"none", "ref"}
\* this.database is assigned once getDatabase has returned.
DatabaseSetBefore(call) == call \in {"ref", "onValue"}

\* A lookup whose exception ends initialize without settling anything.
LookupReturnsUncaught(answer, fault) ==
  /\ initPc = "lookup"
  /\ IF answer = "throws"
     THEN /\ initPc' = "done"
          /\ UNCHANGED <<channel, thrown>>
     ELSE IF getDatabaseUrl(answer) = "null"
     THEN /\ initPc' = "setup"
          /\ UNCHANGED <<channel, thrown>>
     ELSE IF fault = "none"
     THEN /\ database' = TRUE
          /\ realtimeUnsubscribe' = TRUE
          /\ channelOpen' = TRUE
          /\ initPc' = "setup"
          /\ UNCHANGED thrown
     ELSE /\ database' = DatabaseSetBefore(fault)
          /\ UNCHANGED <<realtimeUnsubscribe, channelOpen>>
          /\ initPc' = "thrown"
          /\ thrown' = ErrorOf(FirebaseMessage(fault))
  /\ UNCHANGED <<status, error, initPromise, settleCalls, firstFetch, lookups>>
  /\ lastOp' = Op("lookup", 0, <<answer, fault>>, "none", Me, -1, <<>>)
  /\ UNCHANGED <<user, config, snapshot, listeners, inflight, nextId, closed, pushes>>

\* The /api/sdk/config request returns: setupRealtime returns early, or goes
\* through initializeApp, getDatabase, ref and onValue and registers the
\* callback, or stops at the one of these calls that throws, leaving the
\* fields assigned so far.  Its caller, initialize, resumes in a later step of
\* the event loop, after the await or in its catch block.
LookupReturns(answer, fault) ==
  /\ initPc = "lookup"
  /\ IF getDatabaseUrl(answer) = "null"
     THEN /\ initPc' = "setup"
          /\ UNCHANGED <<channel, thrown>>
     ELSE IF fault = "none"
     THEN /\ database' = TRUE
          /\ realtimeUnsubscribe' = TRUE
          /\ channelOpen' = TRUE
          /\ initPc' = "setup"
          /\ UNCHANGED thrown
     ELSE /\ database' = DatabaseSetBefore(fault)
          /\ UNCHANGED <<realtimeUnsubscribe, channelOpen>>
          /\ initPc' = "thrown"
          /\ thrown' = ErrorOf(FirebaseMessage(fault))
  /\ UNCHANGED <<status, error, initPromise, settleCalls, firstFetch, lookups>>
  /\ lastOp' = Op("lookup", 0, <<answer, fault>>, "none", Me, -1, <<>>)
  /\ UNCHANGED <<user, config, snapshot, listeners, inflight, nextId, closed, pushes>>

\* initialize resumes after an await: after fetchFlags it calls setupRealtime,
\* which suspends in getDatabaseUrl, or with realtime disabled runs to the end
\* of its try block; after setupRealtime it runs to the end of its try block;
\* after fetchFlags or setupRealtime has thrown it runs its catch block.
InitializeResumes ==
  /\ initPc \in {"fetched", "thrown", "setup"}
  /\ IF initPc = "thrown"
     THEN /\ initializeCatch(thrown.message)
          /\ UNCHANGED lookups
     ELSE IF initPc = "fetched" /\ realtimeEnabled
     THEN /\ initPc' = "lookup"
          /\ lookups' = lookups + 1
          /\ UNCHANGED <<status, error, initPromise, settleCalls>>
     ELSE /\ initializeDone
          /\ UNCHANGED lookups
  /\ lastOp' = Op("initialize", 0, <<>>, "none", Me, -1, <<>>)
  /\ UNCHANGED <<user, config, snapshot, thrown, firstFetch, listeners, inflight, nextId,
                 channel, closed, pushes>>

\* identify building its request from the context it replaces.
IdentifyStale(u) ==
  /\ nextId <= limits.fetches
  /\ user' = u
  /\ inflight' = inflight \cup {Request(nextId, "identify", user)}
  /\ nextId' = nextId + 1
  /\ lastOp' = Op("identify", nextId, <<>>, "pending", Me, -1, <<>>)
  /\ UNCHANGED <<config, snapshot, initState, listeners, channel, closed, pushes>>

\* identify(user) up to the await: stores the context and issues a request.
Identify(u) ==
  /\ nextId <= limits.fetches
  /\ user' = u
  /\ inflight' = inflight \cup {Request(nextId, "identify", u)}
  /\ nextId' = nextId + 1
  /\ lastOp' = Op("identify", nextId, <<>>, "pending", Me, -1, <<>>)
  /\ UNCHANGED <<config, snapshot, initState, listeners, channel, closed, pushes>>

\* reset() up to the await.
Reset ==
  /\ nextId <= limits.fetches
  /\ user' = NoUser
  /\ inflight' = inflight \cup {Request(nextId, "reset", NoUser)}
  /\ nextId' = nextId + 1
  /\ lastOp' = Op("reset", nextId, <<>>, "pending", Me, -1, <<>>)
  /\ UNCHANGED <<config, snapshot, initState, listeners, channel, closed, pushes>>

\* A response dropped when a request issued after its own is no longer in
\* flight.
RefetchSucceedsIfNewest(r, payload) ==
  /\ r \in inflight
  /\ r.origin # "init"
  /\ inflight' = inflight \ {r}
  /\ IF \E id \in (r.id + 1)..(nextId - 1) : \A q \in inflight : q.id # id
     THEN /\ lastOp' = Op("fetchOk", r.id, <<>>, "resolved", Me, -1, payload)
          /\ UNCHANGED snapshot
     ELSE LET s == applyFetched(Me, payload)
          IN  /\ Store(s)
              /\ lastOp' = Op("fetchOk", r.id, <<>>, "resolved", s, -1, payload)
  /\ UNCHANGED <<user, config, initState, listeners, nextId, channel, closed, pushes>>

\* A request of identify, reset or the realtime callback lands successfully;
\* the promise of identify / reset resolves.
RefetchSucceeds(r, payload) ==
  /\ r \in inflight
  /\ r.origin # "init"
  /\ inflight' = inflight \ {r}
  /\ LET s == applyFetched(Me, payload)
     IN  /\ Store(s)
         /\ lastOp' = Op("fetchOk", r.id, <<>>, "resolved", s, -1, payload)
  /\ UNCHANGED <<user, config, initState, listeners, nextId, channel, closed, pushes>>

\* How the rejection of fetchFlags reaches the caller: identify and reset await
\* it, so their own promise rejects; the realtime callback discards it (void).
Propagate(origin) == IF origin = "push" THEN "unhandled" ELSE "rejected"

\* A failing re-fetch handled like the first one: status and error are set.
RefetchFailsMarksError(r, f) ==
  /\ r \in inflight
  /\ r.origin # "init"
  /\ inflight' = inflight \ {r}
  /\ status' = "error"
  /\ error' = ErrorOf(f.message)
  /\ lastOp' = Op("fetchFail", r.id, f.message, Propagate(r.origin), Me, -1, <<>>)
  /\ UNCHANGED <<user, config, snapshot, initPromise, settleCalls, initPc, thrown,
                 firstFetch, lookups, listeners, nextId, channel, closed, pushes>>

\* A failing re-fetch that drops the snapshot and tells the listeners.
RefetchFailsClears(r, f) ==
  /\ r \in inflight
  /\ r.origin # "init"
  /\ inflight' = inflight \ {r}
  /\ LET s == notifyListeners([Me EXCEPT !.flags = <<>>])
     IN  /\ flags' = s.flags
         /\ flagValuesCache' = s.cache
         /\ lastOp' = Op("fetchFail", r.id, f.message, Propagate(r.origin), s, -1, <<>>)
  /\ UNCHANGED <<user, config, storage, replacements, initState, listeners, nextId,
                 channel, closed, pushes>>

\* A failing re-fetch that is issued again.
RefetchFailsRetries(r, f) ==
  /\ r \in inflight
  /\ r.origin # "init"
  /\ nextId <= limits.fetches
  /\ inflight' = (inflight \ {r}) \cup {Request(nextId, r.origin, user)}
  /\ nextId' = nextId + 1
  /\ lastOp' = Op("fetchFail", r.id, f.message, Propagate(r.origin), Me, -1, <<>>)
  /\ UNCHANGED <<user, config, snapshot, initState, listeners, channel, closed, pushes>>

\* A failing re-fetch that takes the user context back.
RefetchFailsRollsBack(r, f) ==
  /\ r \in inflight
  /\ r.origin # "init"
  /\ inflight' = inflight \ {r}
  /\ user' = NoUser
  /\ lastOp' = Op("fetchFail", r.id, f.message, Propagate(r.origin), Me, -1, <<>>)
  /\ UNCHANGED <<config, snapshot, initState, listeners, nextId, channel, closed, pushes>>

\* Such a request fails: fetchFlags throws before touching any field.
RefetchFails(r, f) ==
  /\ r \in inflight
  /\ r.origin # "init"
  /\ inflight' = inflight \ {r}
  /\ lastOp' = Op("fetchFail", r.id, f.message, Propagate(r.origin), Me, -1, <<>>)
  /\ UNCHANGED <<user, config, snapshot, initState, listeners, nextId, channel,
                 closed, pushes>>

\* A callback that takes null for an empty set of flags.
PushNullClears ==
  /\ channelOpen
  /\ pushes < limits.pushes
  /\ pushes' = pushes + 1
  /\ LET s == applyPushed(Me, <<>>)
     IN  /\ Store(s)
         /\ lastOp' = Op("pushNull", 0, <<>>, "none", s, -1, <<>>)
  /\ UNCHANGED <<user, config, initState, listeners, inflight, nextId, channel, closed>>

\* The onValue callback with snapshot.val() = null.
PushNull ==
  /\ channelOpen
  /\ pushes < limits.pushes
  /\ pushes' = pushes + 1
  /\ lastOp' = Op("pushNull", 0, <<>>, "none", Me, -1, <<>>)
  /\ UNCHANGED <<user, config, snapshot, initState, listeners, inflight, nextId,
                 channel, closed>>

\* The callback adopting the data although a user context is set.
PushRefetchAdopts(data) ==
  /\ channelOpen
  /\ pushes < limits.pushes
  /\ hasUserContext(user)
  /\ nextId <= limits.fetches
  /\ pushes' = pushes + 1
  /\ LET s == applyPushed(Me, data)
     IN  /\ Store(s)
         /\ lastOp' = Op("pushRefetch", nextId, <<>>, "none", s, -1, data)
  /\ UNCHANGED <<user, config, initState, listeners, inflight, nextId, channel, closed>>

\* A callback that issues no request while one it triggered is in flight.
PushRefetchCoalesces(data) ==
  /\ channelOpen
  /\ pushes < limits.pushes
  /\ hasUserContext(user)
  /\ nextId <= limits.fetches
  /\ pushes' = pushes + 1
  /\ IF \E r \in inflight : r.origin = "push"
     THEN UNCHANGED <<inflight, nextId>>
     ELSE /\ inflight' = inflight \cup {Request(nextId, "push", user)}
          /\ nextId' = nextId + 1
  /\ lastOp' = Op("pushRefetch", nextId, <<>>, "none", Me, -1, data)
  /\ UNCHANGED <<user, config, snapshot, initState, listeners, channel, closed>>

\* The onValue callback with data while a user context is set: re-fetch.
PushRefetch(data) ==
  /\ channelOpen
  /\ pushes < limits.pushes
  /\ hasUserContext(user)
  /\ nextId <= limits.fetches
  /\ pushes' = pushes + 1
  /\ inflight' = inflight \cup {Request(nextId, "push", user)}
  /\ nextId' = nextId + 1
  /\ lastOp' = Op("pushRefetch", nextId, <<>>, "none", Me, -1, data)
  /\ UNCHANGED <<user, config, snapshot, initState, listeners, channel, closed>>

\* The onValue callback with data and no user context: adopt the data.
PushAdopt(data) ==
  /\ channelOpen
  /\ pushes < limits.pushes
  /\ ~hasUserContext(user)
  /\ pushes' = pushes + 1
  /\ LET s == applyPushed(Me, data)
     IN  /\ Store(s)
         /\ lastOp' = Op("pushAdopt", 0, <<>>, "none", s, -1, data)
  /\ UNCHANGED <<user, config, initState, listeners, inflight, nextId, channel, closed>>

\* An error callback that puts the client in the error state.
ChannelErrorRecorded ==
  /\ channelOpen
  /\ pushes < limits.pushes
  /\ pushes' = pushes + 1
  /\ status' = "error"
  /\ error' = ErrorOf(<<"Realtime error">>)
  /\ lastOp' = Op("channelError", 0, <<>>, "none", Me, -1, <<>>)
  /\ UNCHANGED <<user, config, snapshot, initPromise, settleCalls, initPc, thrown,
                 firstFetch, lookups, listeners, inflight, nextId, channel, closed>>

\* The onValue error callback: a log line.
ChannelError ==
  /\ channelOpen
  /\ pushes < limits.pushes
  /\ pushes' = pushes + 1
  /\ lastOp' = Op("channelError", 0, <<>>, "none", Me, -1, <<>>)
  /\ UNCHANGED <<user, config, snapshot, initState, listeners, inflight, nextId,
                 channel, closed>>

Subscribe(l) ==
  /\ l \notin listeners
  /\ listeners' = listeners \cup {l}
  /\ lastOp' = Op("subscribe", 0, <<l>>, "none", Me, -1, <<>>)
  /\ UNCHANGED <<user, config, snapshot, initState, inflight, nextId, channel,
                 closed, pushes>>

\* A remover that empties the whole set.
UnsubscribeClears(l) ==
  /\ l \in listeners
  /\ listeners' = {}
  /\ lastOp' = Op("unsubscribe", 0, <<l>>, "none", Me, -1, <<>>)
  /\ UNCHANGED <<user, config, snapshot, initState, inflight, nextId, channel,
                 closed, pushes>>

\* The function subscribe returned.
Unsubscribe(l) ==
  /\ l \in listeners
  /\ listeners' = listeners \ {l}
  /\ lastOp' = Op("unsubscribe", 0, <<l>>, "none", Me, -1, <<>>)
  /\ UNCHANGED <<user, config, snapshot, initState, inflight, nextId, channel,
                 closed, pushes>>

\* getFlagValues building a new object on every call.
GetFlagValuesRebuilds ==
  /\ flagValuesCache' = updateFlagValuesCache(Me).cache
  /\ lastOp' = Op("getFlagValues", 0, <<>>, "none", Me, flagValuesCache'.ref, <<>>)
  /\ UNCHANGED <<user, config, flags, storage, replacements, initState, listeners,
                 inflight, nextId, channel, closed, pushes>>

GetFlagValues ==
  /\ lastOp' = Op("getFlagValues", 0, <<>>, "none", Me, flagValuesCache.ref, <<>>)
  /\ UNCHANGED <<user, config, snapshot, initState, listeners, inflight, nextId,
                 channel, closed, pushes>>

\* getFlag(key) called from outside; touches no field.
GetFlag(key) ==
  /\ lastOp' = Op("getFlag", 0, key, "none", Me, getFlag(key), <<>>)
  /\ UNCHANGED <<user, config, snapshot, initState, listeners, inflight, nextId,
                 channel, closed, pushes>>

\* isEnabled(key) called from outside; touches no field.
IsEnabled(key) ==
  /\ lastOp' = Op("isEnabled", 0, key, "none", Me, isEnabled(key), <<>>)
  /\ UNCHANGED <<user, config, snapshot, initState, listeners, inflight, nextId,
                 channel, closed, pushes>>

\* close(): realtimeUnsubscribe() if set; if the database is set, ref(...) and
\* off(flagsRef); then listeners.clear().  close has no try block: when ref
\* throws, the call ends there, after the unsubscription and before off and
\* listeners.clear(), and the error goes to the caller.
Close(fault) ==
  /\ closed' = TRUE
  /\ realtimeUnsubscribe' = FALSE
  /\ IF database /\ fault = "ref"
     THEN /\ channelOpen' = (channelOpen /\ ~realtimeUnsubscribe)
          /\ UNCHANGED listeners
          /\ lastOp' = Op("close", 0, FirebaseMessage("ref"), "threw", Me, -1, <<>>)
     ELSE /\ channelOpen' = (channelOpen /\ ~realtimeUnsubscribe /\ ~database)
          /\ listeners' = {}
          /\ lastOp' = Op("close", 0, <<>>, "none", Me, -1, <<>>)
  /\ UNCHANGED <<user, config, snapshot, initState, inflight, nextId, database, pushes>>

Next ==
  \/ \E p \in FetchPayloads : InitFetchSucceeds(p)
  \/ \E f \in Failures : InitFetchFails(f)
  \/ \E a \in LookupAnswers, c \in SetupFaults : LookupReturns(a, c)
  \/ InitializeResumes
  \/ \E u \in UserContexts : Identify(u)
  \/ Reset
  \/ \E r \in inflight, p \in FetchPayloads : RefetchSucceeds(r, p)
  \/ \E r \in inflight, f \in Failures : RefetchFails(r, f)
  \/ PushNull
  \/ \E d \in PushData : PushRefetch(d)
  \/ \E d \in PushData : PushAdopt(d)
  \/ ChannelError
  \/ Subscribe("l1")
  \/ Unsubscribe("l1")
  \/ GetFlagValues
  \/ \E c \in CloseFaults : Close(c)

\* One listener subscribes and unsubscribes here; SpecPush has two.
Spec == Init /\ [][Next]_vars

\* ------------------------------------------- snapshots over all short keys
\* A second specification for the claims about keys: the first response
\* carries any snapshot of one or two flags whose keys are drawn from every
\* string of at most MaxKeyLen characters over KeyAlphabet.
KeyAlphabet == {"b", "B", "-", "_"}
ShortKeys == UNION {[1..n -> KeyAlphabet] : n \in 1..MaxKeyLen}

FirstFlag(k)  == Entry(k, Flag(k, TRUE, StrV("hello"), "string"))
SecondFlag(k) == Entry(k, Flag(k, FALSE, NumV("1"), "number"))
ShortMaps ==
  {<<FirstFlag(k)>> : k \in ShortKeys}
  \cup {<<FirstFlag(ks[1]), SecondFlag(ks[2])>> :
          ks \in {p \in ShortKeys \X ShortKeys : p[1] # p[2]}}

InitKeys == /\ Constructed({Node}, {NoUser})
            /\ Configured({ValidToken}, {NoDefaults})
            /\ Opted({Omitted, Given(FALSE)}, MaxFetches, MaxPush)

NextKeys ==
  \/ /\ initPc = "fetch"
     /\ \E m \in ShortMaps : InitFetchSucceeds(m)
  \/ InitializeResumes
  \/ GetFlagValues

SpecKeys == InitKeys /\ [][NextKeys]_vars

\* -------------------------------------------- reads over all short keys
\* A third specification for the resolver: the first response carries any
\* snapshot of one or two flags with keys of at most MaxReadLen characters over
\* ReadAlphabet, defaultFlags is one of three tables, and getFlag / isEnabled
\* are called with every such key.  A read writes no field, so a read taken
\* after another read reaches nothing a first read does not reach; NextRead
\* takes reads from the states the other handlers leave.
ReadAlphabet == {"b", "B", "-"}
ReadKeys == UNION {[1..n -> ReadAlphabet] : n \in 1..MaxReadLen}

FalseFlag(k) == Entry(k, Flag(k, TRUE, BoolV(FALSE), "boolean"))
ZeroFlag(k)  == Entry(k, Flag(k, TRUE, NumV("0"), "number"))
ReadMaps ==
  {<<mk[1]>> : mk \in {<<FirstFlag(k)>> : k \in ReadKeys}
                      \cup {<<SecondFlag(k)>> : k \in ReadKeys}
                      \cup {<<FalseFlag(k)>> : k \in ReadKeys}
                      \cup {<<ZeroFlag(k)>> : k \in ReadKeys}}
  \cup {<<FirstFlag(ks[1]), SecondFlag(ks[2])>> :
          ks \in {p \in ReadKeys \X ReadKeys : p[1] # p[2]}}

\* A table with a truthy default for every key with a separator and a falsy
\* one for every other key, and a table the other way round.
SeparatorDefaults ==
  [k \in ReadKeys |-> IF needsCamelCase(k) THEN StrV("on") ELSE NumV("0")]
PlainDefaults ==
  [k \in ReadKeys |-> IF needsCamelCase(k) THEN StrV("") ELSE BoolV(TRUE)]
DefaultTables == {NoDefaults, SeparatorDefaults, PlainDefaults}

Reads == {"getFlag", "isEnabled"}

InitRead ==
  /\ Constructed({Node}, {NoUser})
  /\ Configured({ValidToken}, DefaultTables)
  /\ Opted({Given(FALSE)}, MaxFetches, MaxPush)

NextRead ==
  \/ /\ initPc = "fetch"
     /\ \E m \in ReadMaps : InitFetchSucceeds(m)
  \/ InitializeResumes
  \/ /\ lastOp.op \notin Reads
     /\ \E k \in ReadKeys : GetFlag(k)
  \/ /\ lastOp.op \notin Reads
     /\ \E k \in ReadKeys : IsEnabled(k)

SpecRead == InitRead /\ [][NextRead]_vars

\* ------------------------------------------------------- construction
\* A fourth specification for the constructor: it starts where `new` has run
\* the field initialisers and not yet the constructor body.
Unbuilt(envs, users) ==
  /\ user \in users
  /\ realtimeEnabled = FALSE          \* this.config is not assigned yet
  /\ \E env \in envs :
       /\ hasWindow = env[1]
       /\ setItemThrows = env[2]
       /\ storage = env[3]
  /\ flags = <<>>
  /\ flagValuesCache = Fresh(NoItem).cache
  /\ status = "initializing"
  /\ error = NoError
  /\ initPromise = "none"
  /\ settleCalls = 0
  /\ listeners = {}
  /\ initPc = "new"
  /\ thrown = NoError
  /\ firstFetch = "none"
  /\ lookups = 0
  /\ inflight = {}
  /\ nextId = 1
  /\ channelOpen = FALSE
  /\ realtimeUnsubscribe = FALSE
  /\ database = FALSE
  /\ closed = FALSE
  /\ replacements = 0
  /\ pushes = 0
  /\ parsedToken = NullToken
  /\ lastOp = Op("new", 0, <<>>, "none", Fresh(NoItem), -1, <<>>)

\* The constructor with a token parseToken rejects: it throws after storing
\* the configuration; no reference to the object is handed out.
ConstructThrows ==
  /\ initPc = "new"
  /\ parseToken(token).isNull
  /\ realtimeEnabled' = orTrue(realtimeOption)
  /\ initPc' = "threw"
  /\ lastOp' = Op("constructor", 0, <<"Invalid SDK token format">>, "threw", Me, -1, <<>>)
  /\ UNCHANGED <<user, hasWindow, setItemThrows, defaultFlags, token, parsedToken,
                 realtimeOption, limits, snapshot, status, error, initPromise, settleCalls,
                 thrown, firstFetch, lookups, listeners, inflight, nextId, channel, closed,
                 pushes>>

\* The constructor with a token parseToken accepts, run to its end.
ConstructBuilds ==
  /\ initPc = "new"
  /\ ~parseToken(token).isNull
  /\ realtimeEnabled' = orTrue(realtimeOption)
  /\ parsedToken' = parseToken(token)
  /\ initPromise' = "pending"
  /\ LET s == loadCachedFlags(Fresh(storage))
     IN  /\ flags' = s.flags
         /\ flagValuesCache' = s.cache
  /\ initPc' = "fetch"
  /\ firstFetch' = "pending"
  /\ inflight' = {Request(nextId, "init", user)}
  /\ nextId' = nextId + 1
  /\ lastOp' = Op("constructor", 0, <<>>, "none", Fresh(NoItem), -1, <<>>)
  /\ UNCHANGED <<user, hasWindow, setItemThrows, defaultFlags, token,
                 realtimeOption, limits, storage, replacements, status, error, settleCalls,
                 thrown, lookups, listeners, channel, closed, pushes>>

\* The arguments of the constructor call about to run, and the run's budget.
Passed(tokens, tables, options, maxFetches, maxPushes) ==
  /\ token \in tokens
  /\ defaultFlags \in tables
  /\ realtimeOption \in options
  /\ limits = [fetches |-> maxFetches, pushes |-> maxPushes]

InitToken == /\ Unbuilt({Node, Cached}, {NoUser, CtxA})
             /\ Passed(Tokens, {NoDefaults}, {Omitted, Given(FALSE), Given(TRUE)},
                       MaxFetches, MaxPush)

\* The constructor, and the initialization it starts when it does not throw.
NextToken ==
  \/ ConstructThrows
  \/ ConstructBuilds
  \/ \E p \in FetchPayloads : InitFetchSucceeds(p)
  \/ \E f \in Failures : InitFetchFails(f)
  \/ \E a \in LookupAnswers, c \in SetupFaults : LookupReturns(a, c)
  \/ InitializeResumes

SpecToken == InitToken /\ [][NextToken]_vars

\* ------------------------------------------------ bursts of realtime callbacks
\* A fourth specification for the claims about the channel: a server client
\* with realtimeEnabled left out, with or without a user, receiving up to
\* MaxBurst callbacks and issuing the requests they trigger on top of the
\* first one, while listeners come and go and the user is set and reset.
InitPush == /\ Constructed({Node}, {NoUser, CtxA})
            /\ Configured({ValidToken}, {NoDefaults})
            /\ Opted({Omitted}, MaxBurst + 1, MaxBurst)

NextPush ==
  \/ InitFetchSucceeds(FlagsOne)
  \/ \E f \in Failures : InitFetchFails(f)
  \/ \E a \in LookupAnswers, c \in SetupFaults : LookupReturns(a, c)
  \/ InitializeResumes
  \/ \E r \in inflight : RefetchSucceeds(r, FlagsPlain)
  \/ \E r \in inflight, f \in Failures : RefetchFails(r, f)
  \/ PushNull
  \/ PushRefetch(DataX)
  \/ \E d \in PushData : PushAdopt(d)
  \/ ChannelError
  \/ \E l \in Listeners : Subscribe(l)
  \/ \E l \in Listeners : Unsubscribe(l)
  \/ Identify(CtxA)
  \/ Reset

SpecPush == InitPush /\ [][NextPush]_vars

\* ------------------------------------------------- the copy in localStorage
\* A fifth specification for the claims about the stored copy: the
\* constructor runs on a server or in a browser whose localStorage holds no
\* item, an item JSON.parse rejects, or a stored snapshot; the first fetch
\* succeeds or fails; and the flags are read at every point in between.
StoredItems == {NoItem, CorruptItem, Stringify(FlagsOne), Stringify(FlagsClash),
                Stringify(FlagsPlain)}
StoredEnvs == {Node} \cup {<<TRUE, FALSE, item>> : item \in StoredItems}

StoredKeys == {kDash, kCamel, kUnder, kX}
StoredDefaults ==
  {NoDefaults,
   [k \in StoredKeys |-> IF needsCamelCase(k) THEN StrV("on") ELSE NumV("0")],
   [k \in StoredKeys |-> IF needsCamelCase(k) THEN StrV("") ELSE BoolV(TRUE)]}

Accessors == {"getFlag", "isEnabled", "getFlagValues"}

InitCache == /\ Unbuilt(StoredEnvs, {NoUser})
             /\ Passed({ValidToken}, StoredDefaults, {Given(FALSE)}, MaxFetches, MaxPush)

NextCache ==
  \/ ConstructBuilds
  \/ \E p \in FetchPayloads : InitFetchSucceeds(p)
  \/ \E f \in Failures : InitFetchFails(f)
  \/ InitializeResumes
  \/ /\ initPc # "new" /\ lastOp.op \notin Accessors
     /\ \E k \in StoredKeys : GetFlag(k)
  \/ /\ initPc # "new" /\ lastOp.op \notin Accessors
     /\ \E k \in StoredKeys : IsEnabled(k)
  \/ /\ initPc # "new" /\ lastOp.op \notin Accessors
     /\ GetFlagValues

SpecCache == InitCache /\ [][NextCache]_vars

\* -------------------------------------------------- a localStorage that is full
\* A sixth specification for the claim about failing writes: every operation
\* of the client, in a browser whose localStorage.setItem always throws.
QuotaEnvs == {<<TRUE, TRUE, NoItem>>, <<TRUE, TRUE, Stringify(FlagsPlain)>>}

InitQuota == /\ Constructed(QuotaEnvs, {NoUser, CtxA})
             /\ Configured({ValidToken}, {NoDefaults})
             /\ Opted({Omitted}, MaxFetches, MaxPush)

SpecQuota == InitQuota /\ [][Next]_vars

\* ------------------------------------------------ the object getFlags returns
\* getFlags: { ...this.flags }, a new object whose properties are the Flag
\* objects of this.flags themselves.
getFlags == flags

\* The object returned by the last getFlags call is lastOp.data for as long as
\* the caller does nothing but change it.
Holding == lastOp.op \in {"getFlags", "copyDelete", "copyWrite"}

GetFlags ==
  /\ lastOp' = Op("getFlags", 0, <<>>, "none", Me, -1, getFlags)
  /\ UNCHANGED <<user, config, snapshot, initState, listeners, inflight, nextId,
                 channel, closed, pushes>>

\* The caller runs delete copy[k]: the property of the returned object goes,
\* this.flags keeps its own.
CopyDeletes(k) ==
  /\ Holding
  /\ \E i \in 1..Len(lastOp.data) : lastOp.data[i].k = k
  /\ lastOp' = [Op("copyDelete", 0, k, "none", Me, -1, <<>>) EXCEPT
                  !.data = SelectSeq(lastOp.data, LAMBDA e : e.k # k)]
  /\ UNCHANGED <<user, config, snapshot, initState, listeners, inflight, nextId,
                 channel, closed, pushes>>

\* What the caller can assign to a field of a returned Flag.
FieldWrites == {[field |-> "enabled", enabled |-> FALSE, value |-> UndefinedV],
                [field |-> "value", enabled |-> FALSE, value |-> StrV("changed")]}

Written(flag, w) ==
  IF w.field = "enabled" THEN [flag EXCEPT !.enabled = w.enabled]
  ELSE [flag EXCEPT !.value = w.value]

\* The caller runs copy[k].enabled = false or copy[k].value = 'changed': the
\* Flag object is the one this.flags[k] refers to, so both see the write.
CopyWrites(k, w) ==
  /\ Holding
  /\ \E i \in 1..Len(lastOp.data) : lastOp.data[i].k = k
  /\ HasFlag(k)
  /\ flags' = [i \in 1..Len(flags) |->
                 IF flags[i].k = k THEN Entry(k, Written(flags[i].flag, w)) ELSE flags[i]]
  /\ lastOp' = [Op("copyWrite", 0, k, "none", Me, -1, <<>>) EXCEPT
                  !.data = [i \in 1..Len(lastOp.data) |->
                              IF lastOp.data[i].k = k
                              THEN Entry(k, Written(lastOp.data[i].flag, w))
                              ELSE lastOp.data[i]]]
  /\ UNCHANGED <<user, config, flagValuesCache, storage, replacements, initState,
                 listeners, inflight, nextId, channel, closed, pushes>>

\* A seventh specification for the claim about getFlags: a ready server
\* client whose caller takes the flags, changes what it was given and reads
\* again.
InitCopy == /\ Constructed({Node}, {NoUser})
            /\ Configured({ValidToken}, {NoDefaults})
            /\ Opted({Given(FALSE)}, MaxFetches, MaxPush)

NextCopy ==
  \/ \E p \in FetchPayloads : InitFetchSucceeds(p)
  \/ InitializeResumes
  \/ GetFlags
  \/ \E k \in StoredKeys : CopyDeletes(k)
  \/ \E k \in StoredKeys, w \in FieldWrites : CopyWrites(k, w)
  \/ /\ lastOp.op \notin Accessors
     /\ \E k \in StoredKeys : GetFlag(k)
  \/ /\ lastOp.op \notin Accessors
     /\ \E k \in StoredKeys : IsEnabled(k)
  \/ /\ lastOp.op \notin Accessors
     /\ GetFlagValues

SpecCopy == InitCopy /\ [][NextCopy]_vars

\* ------------------------------------------------------- responses that race
\* An eighth specification for the claims about overlapping requests: a
\* server client whose caller sets and resets the user while requests are in
\* flight, up to MaxBurst on top of the first, each answered with any payload
\* or failing, in any order, with one realtime callback in between.
InitRace == /\ Constructed({Node}, {NoUser})
            /\ Configured({ValidToken}, {NoDefaults})
            /\ Opted({Omitted}, MaxBurst + 1, MaxBurst - 1)

NextRace ==
  \/ \E p \in FetchPayloads : InitFetchSucceeds(p)
  \/ \E f \in Failures : InitFetchFails(f)
  \/ LookupReturns("url", "none")
  \/ InitializeResumes
  \/ Identify(CtxA)
  \/ Reset
  \/ \E r \in inflight, p \in FetchPayloads : RefetchSucceeds(r, p)
  \/ \E r \in inflight, f \in Failures : RefetchFails(r, f)
  \/ PushRefetch(DataX)
  \/ PushAdopt(DataX)
  \/ Subscribe("l1")

SpecRace == InitRace /\ [][NextRace]_vars

\* -------------------------------------------------- initialization under fairness
\* A ninth specification for the claim that initialization ends: the caller
\* subscribes, sets and resets the user and closes the client at any time, and
\* the first request and the /api/sdk/config request, once issued, are
\* eventually answered one way or another, and initialize, once the call it
\* awaits has returned, eventually resumes.  Nothing is assumed about the
\* caller or about the other requests.
InitLive == /\ Constructed({Node}, {NoUser, CtxA})
            /\ Configured({ValidToken}, {NoDefaults})
            /\ Opted({Omitted, Given(FALSE)}, MaxFetches, MaxPush)

FirstFetchReturns ==
  \/ \E p \in FetchPayloads : InitFetchSucceeds(p)
  \/ \E f \in Failures : InitFetchFails(f)

LookupAnswered == \E a \in LookupAnswers, c \in SetupFaults : LookupReturns(a, c)

NextLive ==
  \/ FirstFetchReturns
  \/ LookupAnswered
  \/ InitializeResumes
  \/ \E u \in UserContexts : Identify(u)
  \/ Reset
  \/ \E r \in inflight, p \in FetchPayloads : RefetchSucceeds(r, p)
  \/ \E r \in inflight, f \in Failures : RefetchFails(r, f)
  \/ Subscribe("l1")
  \/ \E c \in CloseFaults : Close(c)

SpecLive ==
  /\ InitLive
  /\ [][NextLive]_vars
  /\ WF_vars(FirstFetchReturns)
  /\ WF_vars(LookupAnswered)
  /\ WF_vars(InitializeResumes)

\* ---------------------------------------------------------------- claims
\* The step is the landing of a request: it leaves inflight and lastOp names it.
Lands == \E r \in inflight : r \notin inflight' /\ lastOp'.id = r.id
\* The step delivers a realtime callback.
Delivers == pushes' = pushes + 1
\* The handler that ran last invoked no listener.
Quiet(op) == \A l \in Listeners : op.notified[l] = 0

\* C1: initResolve / initReject is called at most once over the whole run, and
\* once status is 'ready' or 'error' no step changes status, the state of the
\* init promise or the number of settle calls.
C1_InitSettledOnce ==
  [][/\ settleCalls' <= 1
     /\ (initPromise' = "pending") <=> (settleCalls' = 0)
     /\ status \in {"ready", "error"} =>
          /\ status' = status
          /\ initPromise' = initPromise
          /\ settleCalls' = settleCalls]_vars

\* A re-fetch has landed successfully on a client whose initialization failed.
C1_Witness ==
  /\ status = "error"
  /\ initPromise = "rejected"
  /\ lastOp.op = "fetchOk"
  /\ lastOp.id > 1

\* C2: when the first fetch has failed, fetchFlags has thrown an error with
\* the failure's message, no /api/sdk/config lookup is ever issued and no
\* channel opened, and once initialize has resumed the init promise is
\* rejected, status is 'error' and error is the error thrown; this stays so
\* for the rest of the run.
C2_FirstFetchFailure ==
  /\ (lastOp.op = "fetchFail" /\ lastOp.id = 1) =>
       (firstFetch = "failed" /\ thrown = ErrorOf(lastOp.msg))
  /\ firstFetch = "failed" =>
       /\ initPc \in {"thrown", "done"}
       /\ thrown.message \in {f.message : f \in Failures}
       /\ lookups = 0
       /\ ~channelOpen /\ ~database /\ ~realtimeUnsubscribe
  /\ (firstFetch = "failed" /\ initPc = "done") =>
       /\ initPromise = "rejected"
       /\ status = "error"
       /\ ~error.isNull
       /\ error = thrown

\* The first fetch has failed on a client with realtime enabled and
\* initialize has just caught the error.
C2_Witness ==
  /\ firstFetch = "failed"
  /\ lastOp.op = "initialize"
  /\ initPc = "done"
  /\ error.message = StatusMessage("500")
  /\ realtimeEnabled

\* C3 as stated: status is 'ready' only when the first fetch has succeeded and
\* setupRealtime has returned (channel opened, or no URL) or was skipped
\* (realtime disabled); status is 'error' only when the first fetch failed.
C3_ErrorOnlyAfterFetchFailure ==
  /\ status = "ready" =>
       /\ firstFetch = "ok"
       /\ initPc = "done"
       /\ initPromise = "fulfilled"
       /\ IF realtimeEnabled THEN lookups = 1 ELSE lookups = 0 /\ ~channelOpen
  /\ status = "error" => (firstFetch = "failed" /\ initPc = "done")
  /\ initPc # "done" => status = "initializing"

\* C3, amended: status is 'ready' only when the first fetch has succeeded and
\* setupRealtime has returned without throwing (channel opened, or no URL) or
\* was skipped (realtime disabled); status is 'error' only when initialize
\* has caught what the call it awaited threw, which is the failure of the
\* first fetch or, after a successful first fetch with realtime enabled and
\* the lookup answered with a URL, the error thrown by initializeApp,
\* getDatabase, ref or onValue, no subscription being registered then; until
\* initialize has run to its end status is 'initializing'.
C3_ReadyAfterSetup ==
  /\ status = "ready" =>
       /\ firstFetch = "ok"
       /\ initPc = "done"
       /\ initPromise = "fulfilled"
       /\ thrown = NoError
       /\ IF realtimeEnabled THEN lookups = 1 ELSE lookups = 0 /\ ~channelOpen
  /\ status = "error" =>
       /\ initPc = "done"
       /\ initPromise = "rejected"
       /\ error = thrown
       /\ \/ /\ firstFetch = "failed"
             /\ error.message \in {f.message : f \in Failures}
          \/ /\ firstFetch = "ok"
             /\ realtimeEnabled
             /\ lookups = 1
             /\ ~realtimeUnsubscribe /\ ~channelOpen
             /\ error.message \in {FirebaseMessage(c) : c \in SetupCalls}
  /\ initPc # "done" => status = "initializing"

\* The first fetch succeeded, the lookup answered with a URL, onValue threw
\* and initialize has just caught the error: the flags are the fetched ones
\* and the client is in 'error'.
C3_Witness ==
  /\ status = "error"
  /\ firstFetch = "ok"
  /\ replacements = 1
  /\ flags # <<>>
  /\ database
  /\ error.message = FirebaseMessage("onValue")
  /\ lastOp.op = "initialize"

\* C4: a realtime callback delivered while a non-empty user context is set
\* leaves flags, the flat object and the persisted copy alone and calls no
\* listener; if it carries data it issues exactly one request, built from the
\* current context.
C4_PushWithContextRefetches ==
  [][(Delivers /\ hasUserContext(user)) =>
       /\ flags' = flags
       /\ flagValuesCache' = flagValuesCache
       /\ storage' = storage
       /\ Quiet(lastOp')
       /\ lastOp'.op \notin {"pushNull", "channelError"} =>
            \E r \in inflight' :
              /\ r \notin inflight
              /\ inflight' = inflight \cup {r}
              /\ r.method = "POST"
              /\ r.body = user]_vars

\* The callback has just issued a re-fetch while listeners are subscribed and
\* the event's data differs from the snapshot.
C4_Witness ==
  /\ lastOp.op = "pushRefetch"
  /\ listeners # {}
  /\ flags # lastOp.data
  /\ \E r \in inflight : r.id = lastOp.id /\ r.body = CtxA

\* C5: a realtime callback carrying data while no user context is active makes
\* flags the delivered mapping, same keys in the same order, every entry's key
\* field equal to the key it is stored under and its other fields as
\* delivered, and issues no request.
C5_PushWithoutContextAdopts ==
  [][(Delivers /\ ~hasUserContext(user)
        /\ lastOp'.op \notin {"pushNull", "channelError"}) =>
       LET d == lastOp'.data
       IN  /\ Len(flags') = Len(d)
           /\ \A i \in 1..Len(d) :
                /\ flags'[i].k = d[i].k
                /\ flags'[i].flag.key = d[i].k
                /\ flags'[i].flag.enabled = d[i].flag.enabled
                /\ flags'[i].flag.value = d[i].flag.value
                /\ flags'[i].flag.type = d[i].flag.type
           /\ inflight' = inflight
           /\ nextId' = nextId]_vars

\* Data whose key field differs from the key it arrived under has been adopted.
C5_Witness ==
  /\ lastOp.op = "pushAdopt"
  /\ \E i \in 1..Len(lastOp.data) : lastOp.data[i].flag.key # lastOp.data[i].k
  /\ flags = TagKeys(lastOp.data)

\* C6 (as claimed): when a request of identify, reset or the realtime callback
\* fails on a ready client, error holds that failure and no caller's promise
\* rejects.
C6_FailureOnlyInAccessor ==
  (status = "ready" /\ lastOp.op = "fetchFail" /\ lastOp.id > 1) =>
    /\ error = ErrorOf(lastOp.msg)
    /\ lastOp.caller # "rejected"

\* C7: the failure of a request on a ready client changes neither flags, the
\* flat object (so its reference), the persisted copy nor status, and calls no
\* listener.
C7_FailureKeepsSnapshot ==
  [][(Lands /\ lastOp'.op = "fetchFail" /\ status = "ready") =>
       /\ flags' = flags
       /\ flagValuesCache' = flagValuesCache
       /\ storage' = storage
       /\ status' = status
       /\ replacements' = replacements
       /\ Quiet(lastOp')]_vars

\* A re-fetch has failed on a ready client that holds flags, a persisted copy
\* and a listener.
C7_Witness ==
  /\ lastOp.op = "fetchFail"
  /\ lastOp.id > 1
  /\ status = "ready"
  /\ Len(flags) > 0
  /\ storage.kind = "json"
  /\ listeners # {}

\* C8: a step that replaces the snapshot calls each subscribed listener exactly
\* once and no other listener, leaves the flat object with a reference
\* different from the one before, and the listeners run with the new flags and
\* the new flat object in place.
C8_ReplacementNotifiesOnce ==
  [][(replacements' # replacements) =>
       /\ \A l \in Listeners :
            lastOp'.notified[l] = IF l \in listeners THEN 1 ELSE 0
       /\ flagValuesCache'.ref # flagValuesCache.ref
       /\ flagValuesCache'.props = CacheReduce(<<>>, flags')
       /\ listeners # {} =>
            lastOp'.seen = [flags |-> flags', ref |-> flagValuesCache'.ref,
                            props |-> flagValuesCache'.props]]_vars

\* A replacement with both listeners subscribed that changed the flags.
C8_Witness ==
  /\ lastOp.op \in {"fetchOk", "pushAdopt"}
  /\ listeners = Listeners
  /\ \A l \in Listeners : lastOp.notified[l] = 1
  /\ lastOp.seen.flags = flags
  /\ replacements >= 2

\* C9: a step that does not replace the snapshot leaves the reference of the
\* flat object unchanged, and getFlagValues returns that reference.
C9_ReferenceStable ==
  [][/\ (replacements' = replacements) => flagValuesCache'.ref = flagValuesCache.ref
     /\ (lastOp'.op = "getFlagValues") => lastOp'.ret = flagValuesCache.ref]_vars

\* getFlagValues has returned the reference built by an earlier replacement.
C9_Witness ==
  /\ lastOp.op = "getFlagValues"
  /\ replacements >= 1
  /\ lastOp.ret = flagValuesCache.ref
  /\ lastOp.ret >= 1

\* The camelCase alias of key k reads the same as k in the flat object.
AliasAgrees(props, k) == Prop(props, toCamelCase(k)) = Prop(props, k)

\* C10 (as claimed): for every key of the snapshot that contains '-' or '_',
\* the flat object holds the same value under the key and under its camelCase
\* form.
C10_AliasAlwaysAgrees ==
  \A i \in 1..Len(flags) :
    needsCamelCase(flags[i].k) => AliasAgrees(flagValuesCache.props, flags[i].k)

\* No other key of the snapshot writes to k or to the camelCase form of k.
Unambiguous(map, k) ==
  \A j \in 1..Len(map) :
    map[j].k # k =>
      /\ map[j].k # toCamelCase(k)
      /\ (needsCamelCase(map[j].k) => toCamelCase(map[j].k) \notin {k, toCamelCase(k)})

\* C10 (amended): the same, for the keys whose camelCase form is neither a key
\* of the snapshot nor the camelCase form of another key, and which are not
\* themselves the camelCase form of another key.
C10_AliasAgreesWhenUnambiguous ==
  \A i \in 1..Len(flags) :
    (needsCamelCase(flags[i].k) /\ Unambiguous(flags, flags[i].k)) =>
      /\ AliasAgrees(flagValuesCache.props, flags[i].k)
      /\ Prop(flagValuesCache.props, toCamelCase(flags[i].k)) = flags[i].flag.value

\* A snapshot with a separator key whose alias is unambiguous and present.
C10_Witness ==
  /\ replacements >= 1
  /\ \E i \in 1..Len(flags) :
       /\ needsCamelCase(flags[i].k)
       /\ Unambiguous(flags, flags[i].k)
       /\ toCamelCase(flags[i].k) # flags[i].k
       /\ HasProp(flagValuesCache.props, toCamelCase(flags[i].k))

\* C11 (as claimed): in the flat object the entry of an enabled flag holds the
\* flag's value, and a disabled flag has no entry, neither under its key nor
\* under the camelCase form of its key.
C11_DisabledAbsent ==
  \A i \in 1..Len(flags) :
    LET k == flags[i].k
        f == flags[i].flag
    IN  IF f.enabled
        THEN Prop(flagValuesCache.props, k) = f.value
        ELSE /\ ~HasProp(flagValuesCache.props, k)
             /\ needsCamelCase(k) => ~HasProp(flagValuesCache.props, toCamelCase(k))

\* The entries a lookup of key resolves to: the entry stored under key itself
\* or, when there is none, the entries whose key has a separator and whose
\* camelCase form is key.  The flag found is the first of them.
Resolves(key) ==
  LET direct == {i \in 1..Len(flags) : flags[i].k = key}
      viaCamel == {i \in 1..Len(flags) :
                     needsCamelCase(flags[i].k) /\ toCamelCase(flags[i].k) = key}
  IN  IF direct # {} THEN direct ELSE viaCamel
Found(key) == flags[CHOOSE i \in Resolves(key) : \A j \in Resolves(key) : i <= j]
Entered(key) == IF key \in DOMAIN defaultFlags THEN defaultFlags[key] ELSE UndefinedV

\* C12: getFlag(key) returns the value of the flag key resolves to when that
\* flag is enabled, the defaultFlags entry of that flag's own key when it is
\* disabled, and the defaultFlags entry of key when no flag is found; a missing
\* entry reads undefined.
C12_GetFlagResult ==
  lastOp.op = "getFlag" =>
    LET key == lastOp.msg
    IN  IF Resolves(key) = {}
        THEN /\ lastOp.ret = Entered(key)
             /\ key \notin DOMAIN defaultFlags => lastOp.ret = UndefinedV
        ELSE IF Found(key).flag.enabled
        THEN lastOp.ret = Found(key).flag.value
        ELSE lastOp.ret = Entered(Found(key).k)

\* getFlag has answered, for a camelCase key, the default of a disabled flag
\* whose own key has another default than the key asked for.
C12_Witness ==
  /\ lastOp.op = "getFlag"
  /\ ~HasFlag(lastOp.msg)
  /\ Resolves(lastOp.msg) # {}
  /\ ~Found(lastOp.msg).flag.enabled
  /\ Entered(Found(lastOp.msg).k) # Entered(lastOp.msg)
  /\ lastOp.ret = Entered(Found(lastOp.msg).k)

\* C13: isEnabled(key) returns the boolean coercion of the default of the
\* resolved key (false without a default) when no flag is found or the flag
\* found is disabled; for an enabled flag it returns true when the type is not
\* 'boolean' and the boolean coercion of the value when it is.
C13_IsEnabledResult ==
  lastOp.op = "isEnabled" =>
    LET key == lastOp.msg
    IN  IF Resolves(key) = {}
        THEN /\ lastOp.ret = Boolean(Entered(key))
             /\ key \notin DOMAIN defaultFlags => lastOp.ret = FALSE
        ELSE IF ~Found(key).flag.enabled
        THEN /\ lastOp.ret = Boolean(Entered(Found(key).k))
             /\ Found(key).k \notin DOMAIN defaultFlags => lastOp.ret = FALSE
        ELSE IF Found(key).flag.type = "boolean"
        THEN lastOp.ret = Boolean(Found(key).flag.value)
        ELSE lastOp.ret = TRUE

\* isEnabled has answered true for an enabled number flag whose value is 0.
C13_Witness ==
  /\ lastOp.op = "isEnabled"
  /\ Resolves(lastOp.msg) # {}
  /\ Found(lastOp.msg).flag.enabled
  /\ Found(lastOp.msg).flag.type = "number"
  /\ ~Boolean(Found(lastOp.msg).flag.value)
  /\ lastOp.ret = TRUE

\* The lookup of key finds no flag, or a disabled one.
MissingOrDisabled(key) ==
  Resolves(key) = {} \/ ~Found(key).flag.enabled
\* The key whose default such a lookup reads.
ResolvedKey(key) == IF Resolves(key) = {} THEN key ELSE Found(key).k

\* C14 (as claimed): isEnabled returns false whenever the flag does not exist
\* or is disabled, whatever defaultFlags holds.
C14_FalseWheneverMissingOrDisabled ==
  (lastOp.op = "isEnabled" /\ MissingOrDisabled(lastOp.msg)) => lastOp.ret = FALSE

\* C14 (amended): when the flag does not exist or is disabled, isEnabled
\* returns false exactly when defaultFlags holds no truthy value for the
\* resolved key, and true when it holds one.
C14_FalseUnlessTruthyDefault ==
  (lastOp.op = "isEnabled" /\ MissingOrDisabled(lastOp.msg)) =>
    (lastOp.ret = FALSE <=> ~Boolean(Entered(ResolvedKey(lastOp.msg))))

\* isEnabled has answered true for a key without flag and with a truthy default.
C14_Witness ==
  /\ lastOp.op = "isEnabled"
  /\ replacements >= 1
  /\ Resolves(lastOp.msg) = {}
  /\ Boolean(Entered(lastOp.msg))
  /\ lastOp.ret = TRUE

\* C15 (as claimed): for every key of the snapshot that contains '-' or '_',
\* getFlag and isEnabled give for its camelCase form what they give for the
\* key itself.
C15_CamelLookupAlwaysAgrees ==
  \A i \in 1..Len(flags) :
    needsCamelCase(flags[i].k) =>
      /\ getFlag(toCamelCase(flags[i].k)) = getFlag(flags[i].k)
      /\ isEnabled(toCamelCase(flags[i].k)) = isEnabled(flags[i].k)

\* The camelCase form of k is neither another key of the snapshot nor the
\* camelCase form of another key that has a separator.
SoleOwner(map, k) ==
  \A j \in 1..Len(map) :
    map[j].k # k =>
      /\ map[j].k # toCamelCase(k)
      /\ needsCamelCase(map[j].k) => toCamelCase(map[j].k) # toCamelCase(k)

\* C15 (amended): the same, for the keys whose camelCase form is neither
\* another key of the snapshot nor the camelCase form of another key.
C15_CamelLookupAgreesForSoleOwner ==
  \A i \in 1..Len(flags) :
    (needsCamelCase(flags[i].k) /\ SoleOwner(flags, flags[i].k)) =>
      /\ getFlag(toCamelCase(flags[i].k)) = getFlag(flags[i].k)
      /\ isEnabled(toCamelCase(flags[i].k)) = isEnabled(flags[i].k)
      /\ flags[i].flag.enabled => getFlag(toCamelCase(flags[i].k)) = flags[i].flag.value

\* getFlag has been asked the camelCase form of the key of an enabled flag
\* that is the sole owner of that form, in a snapshot of two flags.
C15_Witness ==
  /\ lastOp.op = "getFlag"
  /\ Len(flags) = 2
  /\ \E i \in 1..Len(flags) :
       /\ needsCamelCase(flags[i].k)
       /\ SoleOwner(flags, flags[i].k)
       /\ toCamelCase(flags[i].k) # flags[i].k
       /\ lastOp.msg = toCamelCase(flags[i].k)
       /\ flags[i].flag.enabled
       /\ lastOp.ret = flags[i].flag.value

\* The positions of the underscores of a token, and the token cut at them.
Underscores(tok) == {i \in 1..Len(tok) : tok[i] = "_"}
NthUnderscore(tok, n) ==
  CHOOSE i \in Underscores(tok) :
    Cardinality({j \in Underscores(tok) : j <= i}) = n
\* At least four segments, the first of them 'rly'.
WellFormed(tok) ==
  /\ Cardinality(Underscores(tok)) >= 3
  /\ SubSeq(tok, 1, NthUnderscore(tok, 1) - 1) = rly
SecondSegment(tok) ==
  SubSeq(tok, NthUnderscore(tok, 1) + 1, NthUnderscore(tok, 2) - 1)
ThirdSegment(tok) ==
  SubSeq(tok, NthUnderscore(tok, 2) + 1, NthUnderscore(tok, 3) - 1)

\* C16: the constructor goes through exactly for the tokens with at least
\* four '_'-separated segments whose first is 'rly', storing the second as
\* projectId and the third as environmentKey; for every other token it throws
\* 'Invalid SDK token format' with no request issued, no init promise created,
\* the persisted snapshot not loaded and the fields as initialised.
C16_TokenFormat ==
  /\ initPc = "threw" =>
       /\ ~WellFormed(token)
       /\ lastOp.caller = "threw"
       /\ lastOp.msg = <<"Invalid SDK token format">>
       /\ inflight = {} /\ nextId = 1 /\ lookups = 0
       /\ initPromise = "none"
       /\ flags = <<>>
       /\ flagValuesCache = Fresh(NoItem).cache
       /\ parsedToken = NullToken
       /\ status = "initializing" /\ ~channelOpen /\ listeners = {}
  /\ initPc \notin {"new", "threw"} =>
       /\ WellFormed(token)
       /\ ~parsedToken.isNull
       /\ parsedToken.projectId = SecondSegment(token)
       /\ parsedToken.environmentKey = ThirdSegment(token)
       /\ lastOp.caller # "threw"

\* The constructor has thrown for 'rly_p_e' in a browser that holds a
\* persisted snapshot.
C16_Witness ==
  /\ initPc = "threw"
  /\ token = rly \o <<"_", "p", "_", "e">>
  /\ hasWindow
  /\ storage = Stringify(FlagsOne)

\* The step issues exactly one request, r.
Issues(r) == r \notin inflight /\ inflight' = inflight \cup {r}
\* The step is the successful landing of a request issued by origin: it
\* replaces the snapshot by the response's flags and calls every listener.
LandsWell(origins) ==
  \E r \in inflight :
    /\ r.origin \in origins
    /\ r \notin inflight'
    /\ lastOp'.op = "fetchOk" /\ lastOp'.id = r.id

\* C17 (as claimed): identify(ctx) makes ctx the context and issues exactly
\* one request, which carries ctx.
C17_IdentifyCarriesContext ==
  [][\A u \in UserContexts :
       Identify(u) =>
         /\ user' = u
         /\ \E r \in inflight' : Issues(r) /\ r.method = "POST" /\ r.body = u]_vars

\* C17 (amended): identify(ctx) makes ctx the context and issues exactly one
\* request, which carries ctx when ctx has a property and is a plain GET when
\* ctx is empty; reset() clears the context and issues exactly one plain GET;
\* neither call, nor the landing of their requests, changes status, and a
\* successful landing replaces the snapshot by the response's flags and calls
\* every subscribed listener once.
C17_IdentifyResetRefetch ==
  [][/\ \A u \in UserContexts :
          Identify(u) =>
            /\ user' = u
            /\ status' = status
            /\ \E r \in inflight' :
                 /\ Issues(r)
                 /\ IF u.attrs # {} THEN r.method = "POST" /\ r.body = u
                    ELSE r.method = "GET" /\ r.body = NoUser
     /\ Reset =>
          /\ user' = NoUser
          /\ status' = status
          /\ \E r \in inflight' : Issues(r) /\ r.method = "GET" /\ r.body = NoUser
     /\ LandsWell({"identify", "reset"}) =>
          /\ status' = status
          /\ flags' = lastOp'.data
          /\ replacements' = replacements + 1
          /\ \A l \in Listeners :
               lastOp'.notified[l] = IF l \in listeners THEN 1 ELSE 0]_vars

\* The request of identify({userId}) has landed on a ready client with a
\* listener, the context still being the one identify set.
C17_Witness ==
  /\ lastOp.op = "fetchOk"
  /\ lastOp.id > 1
  /\ status = "ready"
  /\ user = CtxA
  /\ listeners # {}
  /\ flags = lastOp.data

\* C18: a context without properties is treated as no context: every request
\* issued while the context has no property is a GET without payload, whether
\* the context is undefined or {}, and a realtime callback carrying data while
\* the context has no property replaces the snapshot by the data and issues no
\* request.
C18_EmptyContextIsAbsent ==
  /\ \A r \in inflight : user.attrs = {} => (r.method = "GET" /\ r.body = NoUser)
  /\ [][/\ \A r \in inflight' \ inflight :
             user'.attrs = {} => (r.method = "GET" /\ r.body = NoUser)
        /\ (Delivers /\ user.attrs = {}
              /\ lastOp'.op \notin {"pushNull", "channelError"}) =>
             /\ lastOp'.op = "pushAdopt"
             /\ flags' = TagKeys(lastOp'.data)
             /\ replacements' = replacements + 1
             /\ inflight' = inflight]_vars

\* A realtime callback has been adopted while the context is {}.
C18_Witness ==
  /\ lastOp.op = "pushAdopt"
  /\ user = EmptyCtx
  /\ flags = TagKeys(lastOp.data)

\* C19: the flat object is always the one derived from the current flags; after
\* a successful fetch the flags are exactly the response's flags and after an
\* adopted realtime callback exactly the delivered entries, key by key, and the
\* listeners called by the replacement read the new flags and the flat object
\* derived from them.
C19_WholesaleReplacement ==
  /\ flagValuesCache.props = CacheReduce(<<>>, flags)
  /\ lastOp.op = "fetchOk" => flags = lastOp.data
  /\ lastOp.op = "pushAdopt" =>
       /\ Len(flags) = Len(lastOp.data)
       /\ \A i \in 1..Len(flags) :
            /\ flags[i].k = lastOp.data[i].k
            /\ flags[i].flag = [lastOp.data[i].flag EXCEPT !.key = flags[i].k]
  /\ (lastOp.op \in {"fetchOk", "pushAdopt"} /\ listeners # {}) =>
       lastOp.seen = [flags |-> flags, ref |-> flagValuesCache.ref,
                      props |-> CacheReduce(<<>>, flags)]

\* The first response has replaced a snapshot loaded from localStorage whose
\* key is not in the response.
C19_Witness ==
  /\ hasWindow
  /\ replacements = 1
  /\ lastOp.op = "fetchOk"
  /\ flags = FlagsPlain
  /\ ~HasProp(flagValuesCache.props, kDash)
  /\ storage = Stringify(FlagsPlain)

\* C20: every close(), the first and any later one, leaves the listener set
\* empty, the channel subscription removed and the requests in flight where
\* they are; a replacement calls only listeners that are in the set when it
\* happens, so none that close() removed.
C20_CloseSilences ==
  [][/\ lastOp'.op = "close" =>
          /\ listeners' = {}
          /\ ~channelOpen'
          /\ ~realtimeUnsubscribe'
          /\ inflight' = inflight
          /\ flags' = flags
          /\ status' = status
     /\ closed => closed'
     /\ (replacements' # replacements) =>
          \A l \in Listeners : lastOp'.notified[l] > 0 => l \in listeners]_vars

\* C21: once close() has run, no response replaces the flags, the flat object
\* or the stored copy: the step last taken on a closed client is never a
\* successful fetch.
C21_NoReplacementAfterClose ==
  closed => lastOp.op # "fetchOk"

\* C22: the function subscribe returned removes its listener and no other; a
\* listener enters the set only through a subscribe call; and every
\* replacement of the flags calls each listener that is in the set exactly
\* once and no listener that is not.
C22_UnsubscribeRemoves ==
  [][/\ lastOp'.op = "unsubscribe" =>
          /\ lastOp'.msg[1] \in listeners
          /\ listeners' = listeners \ {lastOp'.msg[1]}
     /\ ~(listeners' \subseteq listeners) =>
          /\ lastOp'.op = "subscribe"
          /\ listeners' = listeners \cup {lastOp'.msg[1]}
     /\ (replacements' # replacements) =>
          /\ listeners' = listeners
          /\ \A l \in Listeners :
               lastOp'.notified[l] = IF l \in listeners THEN 1 ELSE 0]_vars

\* After a replacement, one of two subscribed listeners has been removed and
\* the other is still in the set.
C22_Witness ==
  /\ lastOp.op = "unsubscribe"
  /\ lastOp.msg = <<"l1">>
  /\ listeners = {"l2"}
  /\ replacements >= 1

\* C23: when the /api/sdk/config request answers without ok, answers without a
\* databaseUrl or throws, setupRealtime returns with no Firebase database, no
\* onValue subscription and no error recorded, and the step in which
\* initialize resumes after setupRealtime leaves the channel as it is, records
\* no error, makes status 'ready' and resolves the init promise by its one
\* settle call.
C23_LookupNothingStillReady ==
  [][/\ (lastOp'.op = "lookup" /\ lastOp'.msg[1] \in {"noUrl", "notOk", "throws"}) =>
          /\ ~channelOpen' /\ ~realtimeUnsubscribe' /\ ~database'
          /\ error' = NoError
          /\ initPc' = "setup"
     /\ (initPc = "setup" /\ initPc' # "setup") =>
          /\ UNCHANGED channel
          /\ error' = NoError
          /\ status' = "ready"
          /\ initPromise' = "fulfilled"
          /\ settleCalls' = 1]_vars

\* The lookup came back without an address and initialize has just made the
\* client ready: realtime is enabled and there is no database.
C23_Witness ==
  /\ lastOp.op = "initialize"
  /\ realtimeEnabled
  /\ lookups = 1
  /\ status = "ready"
  /\ initPromise = "fulfilled"
  /\ ~database
  /\ ~channelOpen

\* C24: a client built with realtimeEnabled: false never requests
\* /api/sdk/config and never has a Firebase app or an onValue subscription, and
\* once its first fetch has succeeded, initialize, when it resumes, makes it
\* 'ready' and resolves its init promise, with nothing of setupRealtime in
\* between; a client built without the option has realtimeEnabled true and
\* has requested /api/sdk/config exactly once when initialize has resumed
\* after a successful first fetch, and no client requests it before.
C24_RealtimeOption ==
  /\ (initPc # "new" /\ realtimeOption = Given(FALSE)) =>
       /\ ~realtimeEnabled
       /\ lookups = 0
       /\ initPc \notin {"lookup", "setup"}
       /\ ~channelOpen /\ ~realtimeUnsubscribe /\ ~database
       /\ (firstFetch = "ok" /\ initPc # "fetched") =>
            (initPc = "done" /\ status = "ready" /\ initPromise = "fulfilled")
  /\ (initPc # "new" /\ ~realtimeOption.given) =>
       /\ realtimeEnabled
       /\ (firstFetch = "ok" /\ initPc # "fetched") => lookups = 1
  /\ (firstFetch # "ok" \/ initPc = "fetched") => lookups = 0

\* A client built without the option has its first response, initialize has
\* resumed and is waiting for the answer of /api/sdk/config, not yet ready.
C24_Witness ==
  /\ realtimeOption = Omitted
  /\ lastOp.op = "initialize"
  /\ initPc = "lookup"
  /\ lookups = 1
  /\ status = "initializing"

\* C25: the onValue error callback leaves status, the recorded error, the init
\* promise, the flags, the flat object (the same reference), the stored copy,
\* the listener set, the channel and the requests in flight as they were, and
\* calls no listener.
C25_ChannelErrorIsInert ==
  [][lastOp'.op = "channelError" =>
       /\ status' = status
       /\ error' = error
       /\ initPromise' = initPromise
       /\ flags' = flags
       /\ flagValuesCache' = flagValuesCache
       /\ storage' = storage
       /\ listeners' = listeners
       /\ channelOpen' = channelOpen
       /\ inflight' = inflight
       /\ nextId' = nextId
       /\ user' = user
       /\ Quiet(lastOp')]_vars

\* The error callback has run on a ready client that has a user, a listener
\* and a request still in flight.
C25_Witness ==
  /\ lastOp.op = "channelError"
  /\ status = "ready"
  /\ hasUserContext(user)
  /\ listeners # {}
  /\ inflight # {}
  /\ channelOpen

\* C26: when the constructor found no item in localStorage (or no
\* localStorage), or an item JSON.parse rejects, it returned without throwing
\* and, as long as no response has replaced the flags, the flags are empty,
\* the flat object is the empty one the field started with, getFlag(key) is
\* defaultFlags[key] and isEnabled(key) is Boolean(defaultFlags[key]).
C26_BadItemIgnored ==
  (initPc # "new" /\ storage.kind \in {"missing", "corrupt"} /\ replacements = 0) =>
    /\ lastOp.caller # "threw"
    /\ flags = <<>>
    /\ flagValuesCache = [ref |-> 0, props |-> <<>>]
    /\ lastOp.op = "getFlag" => lastOp.ret = Default(lastOp.msg)
    /\ lastOp.op = "isEnabled" => lastOp.ret = Boolean(Default(lastOp.msg))
    /\ lastOp.op = "getFlagValues" => lastOp.ret = 0

\* With an unparsable item in localStorage and the first fetch still in
\* flight, getFlag has answered with the default of the key.
C26_Witness ==
  /\ storage = CorruptItem
  /\ firstFetch = "pending"
  /\ lastOp.op = "getFlag"
  /\ lastOp.msg = kDash
  /\ lastOp.ret = StrV("on")

\* The value of the stored entry a read of key resolves to, when that entry is
\* enabled and no other entry competes for the key.
StoredHit(map, key) ==
  {i \in 1..Len(map) :
     /\ map[i].flag.enabled
     /\ \/ map[i].k = key
        \/ needsCamelCase(map[i].k) /\ toCamelCase(map[i].k) = key /\ SoleOwner(map, map[i].k)}

\* C27: when the constructor found a stored snapshot, then from its return
\* until the first replacement the flags are that snapshot and the flat object
\* is the one built from it by the single rebuild of the load; getFlag
\* answers an enabled stored flag's value under its key and its camelCase form,
\* isEnabled answers the value of an enabled stored boolean flag, getFlagValues
\* answers that flat object; and a failed first fetch, once initialize has
\* caught it, leaves status 'error' with all of this still in place.
C27_StoredSnapshotServed ==
  (initPc # "new" /\ hasWindow /\ storage.kind = "json" /\ replacements = 0) =>
    /\ flags = storage.data
    /\ flagValuesCache = [ref |-> 1, props |-> CacheReduce(<<>>, storage.data)]
    /\ lastOp.op = "getFlag" =>
         \A i \in StoredHit(storage.data, lastOp.msg) :
           lastOp.ret = storage.data[i].flag.value
    /\ lastOp.op = "isEnabled" =>
         \A i \in StoredHit(storage.data, lastOp.msg) :
           storage.data[i].flag.type = "boolean" =>
             lastOp.ret = Boolean(storage.data[i].flag.value)
    /\ lastOp.op = "getFlagValues" => lastOp.ret = 1
    /\ (firstFetch = "failed" /\ initPc = "done") =>
         (status = "error" /\ initPromise = "rejected")

\* The first fetch has failed and getFlag still answers the stored flag under
\* the camelCase form of its key.
C27_Witness ==
  /\ storage = Stringify(FlagsOne)
  /\ firstFetch = "failed"
  /\ status = "error"
  /\ lastOp.op = "getFlag"
  /\ lastOp.msg = kCamel
  /\ lastOp.ret = BoolV(TRUE)

\* C28: where localStorage.setItem throws, a successful response or an adopted
\* realtime callback still leaves the flags replaced by what it carried, the
\* flat object rebuilt from them and every subscribed listener called once,
\* and the promise of the fetchFlags call that handled the response resolved;
\* the stored copy is the one found at construction.
C28_WriteFailureSwallowed ==
  (hasWindow /\ setItemThrows) =>
    /\ storage \in {NoItem, Stringify(FlagsPlain)}
    /\ lastOp.op \in {"fetchOk", "pushAdopt"} =>
         /\ flags = IF lastOp.op = "fetchOk" THEN lastOp.data ELSE TagKeys(lastOp.data)
         /\ flagValuesCache.props = CacheReduce(<<>>, flags)
         /\ \A l \in Listeners : lastOp.notified[l] = IF l \in listeners THEN 1 ELSE 0
         /\ lastOp.op = "fetchOk" => lastOp.caller = "resolved"

\* The response to identify() has replaced the flags and called a listener
\* while the stored copy is still the older snapshot.
C28_Witness ==
  /\ setItemThrows
  /\ storage = Stringify(FlagsPlain)
  /\ lastOp.op = "fetchOk"
  /\ lastOp.id > 1
  /\ lastOp.caller = "resolved"
  /\ flags = FlagsClash
  /\ listeners # {}
  /\ \E l \in listeners : lastOp.notified[l] = 1

\* C29: a step in which a request fails only takes that request out of flight:
\* it issues no request, flag or config; and a request enters flight only in a
\* step of identify(), of reset(), or of a realtime callback that carries data
\* while a user context is set, one request per step.
C29_NoRetry ==
  [][/\ lastOp'.op = "fetchFail" =>
          /\ \E r \in inflight : inflight' = inflight \ {r} /\ lastOp'.id = r.id
          /\ nextId' = nextId
          /\ lookups' = lookups
     /\ inflight' \ inflight # {} =>
          /\ Cardinality(inflight' \ inflight) = 1
          /\ nextId' = nextId + 1
          /\ lastOp'.op \in {"identify", "reset", "pushRefetch"}
          /\ lastOp'.op = "pushRefetch" => (hasUserContext(user) /\ Delivers)]_vars

\* The request of identify() or reset() has failed and nothing is in flight,
\* although the run could still issue a request.
C29_Witness ==
  /\ lastOp.op = "fetchFail"
  /\ lastOp.caller = "rejected"
  /\ inflight = {}
  /\ nextId <= limits.fetches

\* C30: every realtime callback that carries data while a user context is set
\* puts one more request in flight, a new one carrying the user, whatever is
\* already in flight, and adopts nothing; so n such callbacks issue n requests.
C30_OneFetchPerPush ==
  [][(Delivers /\ hasUserContext(user) /\ lastOp'.op \notin {"pushNull", "channelError"}) =>
       /\ lastOp'.op = "pushRefetch"
       /\ Request(nextId, "push", user) \notin inflight
       /\ inflight' = inflight \cup {Request(nextId, "push", user)}
       /\ Cardinality(inflight') = Cardinality(inflight) + 1
       /\ nextId' = nextId + 1
       /\ flags' = flags
       /\ replacements' = replacements]_vars

\* The second callback of a burst has run while the request of the first was
\* still in flight: two requests triggered by callbacks are in flight.
C30_Witness ==
  /\ lastOp.op = "pushRefetch"
  /\ pushes = 2
  /\ Cardinality({r \in inflight : r.origin = "push"}) = 2

\* C31: no change the caller makes to the object getFlags returned (deleting a
\* property, assigning a field of a returned Flag) changes the flags, the flat
\* object, or what getFlag and isEnabled answer for any key.
C31_GetFlagsIsDefensive ==
  [][lastOp'.op \in {"copyDelete", "copyWrite"} =>
       /\ flags' = flags
       /\ flagValuesCache' = flagValuesCache
       /\ \A k \in StoredKeys :
            /\ getFlag(k)' = getFlag(k)
            /\ isEnabled(k)' = isEnabled(k)]_vars

\* C32: whichever request a successful response answers, and whatever has
\* landed before it, the response makes its payload the flags and calls every
\* subscribed listener once; an adopted realtime callback does the same with
\* the entries it delivers; and the flags change in no other step, so they
\* are always what landed last.
C32_LastLandingWins ==
  [][/\ lastOp'.op = "fetchOk" =>
          /\ \E r \in inflight : inflight' = inflight \ {r} /\ lastOp'.id = r.id
          /\ flags' = lastOp'.data
          /\ replacements' = replacements + 1
          /\ \A l \in Listeners : lastOp'.notified[l] = IF l \in listeners THEN 1 ELSE 0
     /\ lastOp'.op = "pushAdopt" =>
          /\ flags' = TagKeys(lastOp'.data)
          /\ replacements' = replacements + 1
          /\ \A l \in Listeners : lastOp'.notified[l] = IF l \in listeners THEN 1 ELSE 0
     /\ flags' # flags => lastOp'.op \in {"fetchOk", "pushAdopt"}]_vars

\* All three requests were answered successfully and the second one issued
\* landed last, after the third: its payload is the flags.
C32_Witness ==
  /\ lastOp.op = "fetchOk"
  /\ lastOp.id = 2
  /\ nextId = 4
  /\ inflight = {}
  /\ replacements = 3
  /\ pushes = 0
  /\ flags = FlagsClash
  /\ listeners # {}

\* C33: the camelCase form of every key of the flags contains neither '-' nor
\* '_'.
C33_CamelCaseHasNoSeparator ==
  \A i \in 1..Len(flags) :
    \A j \in 1..Len(toCamelCase(flags[i].k)) :
      toCamelCase(flags[i].k)[j] \notin Separators

\* The entries a read of key may use: the entry stored under key itself when
\* there is one, otherwise the first entry in property order whose key has a
\* separator and whose camelCase form is key.
Exact(key) == {i \in 1..Len(flags) : flags[i].k = key}
Aliased(key) ==
  {i \in 1..Len(flags) : needsCamelCase(flags[i].k) /\ toCamelCase(flags[i].k) = key}
Used(key) ==
  IF Exact(key) # {} THEN Exact(key)
  ELSE {i \in Aliased(key) : \A j \in Aliased(key) : i <= j}

\* C34: getFlag and isEnabled answer from the entry stored under the key they
\* are given when there is one, whatever other key has that camelCase form,
\* and otherwise from the first entry whose key has a separator and that
\* camelCase form: its value when enabled, the default of its own key when not.
C34_ExactMatchFirst ==
  /\ lastOp.op = "getFlag" =>
       \A i \in Used(lastOp.msg) :
         lastOp.ret = IF flags[i].flag.enabled THEN flags[i].flag.value
                      ELSE Default(flags[i].k)
  /\ lastOp.op = "isEnabled" =>
       \A i \in Used(lastOp.msg) :
         lastOp.ret = IF ~flags[i].flag.enabled THEN Boolean(Default(flags[i].k))
                      ELSE IF flags[i].flag.type = "boolean"
                           THEN Boolean(flags[i].flag.value)
                           ELSE TRUE

\* getFlag has been asked for a key that is stored itself, second in order,
\* behind another key with the same camelCase form, and answered from the
\* second.
C34_Witness ==
  /\ lastOp.op = "getFlag"
  /\ Len(flags) = 2
  /\ flags[2].k = lastOp.msg
  /\ needsCamelCase(flags[1].k)
  /\ toCamelCase(flags[1].k) = lastOp.msg
  /\ flags[1].flag.enabled
  /\ lastOp.ret # flags[1].flag.value

\* C35: when a successful response leaves nothing in flight, every request
\* issued so far having succeeded and no realtime callback having run, the
\* request it answers was issued with the context getUser() now returns, so
\* the flags it installs are not those of a superseded context.
C35_SettledSnapshotIsCurrent ==
  [][\A r \in inflight :
       (/\ lastOp'.op = "fetchOk" /\ lastOp'.id = r.id
        /\ inflight' = {}
        /\ pushes' = 0
        /\ replacements' = nextId' - 1) =>
         r.body = IF hasUserContext(user') THEN user' ELSE NoUser]_vars

\* C36: once close() has been called and initialize has run to its end, there
\* is no onValue subscription, so no realtime callback can replace the flags.
C36_ClosedMeansNoChannel ==
  (closed /\ initPc = "done") =>
    /\ ~channelOpen
    /\ ~realtimeUnsubscribe
    /\ lastOp.op # "pushAdopt"

\* C37: for every key of the flags, the flat object holds under that key the
\* value of the flag stored under it.
C37_CanonicalKeyKeepsItsValue ==
  \A i \in 1..Len(flags) :
    Prop(flagValuesCache.props, flags[i].k) = flags[i].flag.value

\* C38: the onValue callback with snapshot.val() = null leaves the flags, the
\* flat object (the same reference), the stored copy, the status, the listener
\* set and the requests in flight as they were and calls no listener, with a
\* user context set or not.
C38_NullPushIsInert ==
  [][lastOp'.op = "pushNull" =>
       /\ flags' = flags
       /\ flagValuesCache' = flagValuesCache
       /\ storage' = storage
       /\ replacements' = replacements
       /\ status' = status
       /\ error' = error
       /\ listeners' = listeners
       /\ inflight' = inflight
       /\ nextId' = nextId
       /\ user' = user
       /\ Quiet(lastOp')]_vars

\* The callback has delivered null to a client that has a user, flags and a
\* listener.
C38_Witness ==
  /\ lastOp.op = "pushNull"
  /\ hasUserContext(user)
  /\ flags # <<>>
  /\ listeners # {}
  /\ channelOpen

\* C39: if the first request and the /api/sdk/config request are answered
\* whenever they are pending, and initialize resumes whenever the call it
\* awaits has returned, then whatever the caller does in between the client
\* eventually has a status other than 'initializing' and a settled init
\* promise.
C39_InitializationEnds ==
  <>(status # "initializing" /\ initPromise # "pending")

\* The lookup has been answered and initialize has run to its end, after
\* identify() and close() were called during initialization, and the init
\* promise is resolved.
C39_Witness ==
  /\ lastOp.op = "initialize"
  /\ lookups = 1
  /\ closed
  /\ nextId > 2
  /\ status = "ready"
  /\ initPromise = "fulfilled"

\* C40: the step in which the request of identify() fails leaves the user
\* context, the flags, the flat object and the stored copy as they were, the
\* context being the one identify() set; and a realtime callback that carries
\* data re-fetches exactly when the context then in place has a property,
\* and adopts the data otherwise.
C40_FailedIdentifyKeepsContext ==
  [][/\ lastOp'.op = "identify" => user'.defined
     /\ \A r \in inflight :
          (r.origin = "identify" /\ r \notin inflight' /\ lastOp'.op = "fetchFail"
           /\ lastOp'.id = r.id) =>
            /\ user' = user
            /\ flags' = flags
            /\ flagValuesCache' = flagValuesCache
            /\ storage' = storage
     /\ (Delivers /\ lastOp'.op \in {"pushRefetch", "pushAdopt"}) =>
          (lastOp'.op = "pushRefetch" <=> hasUserContext(user))]_vars

\* The request of identify() has failed: the user is the one identify() set
\* and the flags are those of the first, unpersonalized response.
C40_Witness ==
  /\ lastOp.op = "fetchFail"
  /\ lastOp.id = 2
  /\ lastOp.caller = "rejected"
  /\ nextId = 3
  /\ user = CtxA
  /\ flags = FlagsOne
  /\ replacements = 1
  /\ channelOpen

====
